---- MODULE Spec2Model ----
(***************************************************************************)
(* stock-info-backend: the periodic data synchronisation service           *)
(* (DataSyncService), the market source adapters (NSEService, AMFIService) *)
(* and the record store they write (Stock, MutualFund).                    *)
(*                                                                         *)
(* Asynchronous functions are modelled as runs: one record per invocation  *)
(* in flight, with pc naming the await the invocation is suspended at.     *)
(* Everything between two awaits is one atomic step (Node runs a single    *)
(* thread of control).                                                     *)
(*                                                                         *)
(* Tickers and scheme codes are numbered 1, 2, ...; dates are day numbers. *)
(***************************************************************************)
EXTENDS Integers, Sequences, FiniteSets, TLC

VARIABLES
    isRunning,            \* DataSyncService.isRunning
    lastStockSync,        \* DataSyncService.lastStockSync
    lastMutualFundSync,   \* DataSyncService.lastMutualFundSync
    stocks,               \* Stock collection: ticker -> record
    funds,                \* MutualFund collection: schemeCode -> record
    runs,                 \* async invocations: slot -> run record
    upStock,              \* upstream quote provider: ticker -> response
    upFund,               \* upstream NAV provider: schemeCode -> response
    dbUp,                 \* whether the database answers (else its calls reject)
    now,                  \* wall clock (day number)
    triggers,             \* number of triggers fired so far
    skipped,              \* number of 'already running, skipping' warnings logged
    clients,              \* WebSocketService.clients: socket -> client info
    readyState,           \* readyState of every socket
    outbox,               \* frames sent on every socket, in order
    wsIsRunning,          \* WebSocketService.isRunning
    updateInterval,       \* WebSocketService.updateInterval is set (timer armed)
    heartbeatIntervals,   \* heartbeat timers armed by setInterval
    signalled,            \* SIGTERM or SIGINT has been received
    events,               \* client, timer and signal events handled so far
    watchlist,            \* the stored Watchlist document: its stocks and __v
    requests              \* watchlist requests: request -> handler position

\* the watchlist document and the requests on it
watchlistVars == <<watchlist, requests>>

\* the state of the WebSocket service and of the process
wsVars == <<clients, readyState, outbox, wsIsRunning, updateInterval,
            heartbeatIntervals, signalled, events>>

vars == <<isRunning, lastStockSync, lastMutualFundSync, stocks, funds, runs,
          upStock, upFund, dbUp, now, triggers, skipped, wsVars, watchlistVars>>

----------------------------------------------------------------------------
(* Program constants *)

StockBatchSize == 10
FundBatchSize == 5
PriceHistoryCap == 90
NavHistoryCap == 365
PriceFetchLimit == 90
NavFetchLimit == 365

(* Bounds of the model *)

MaxTriggers == 2

\* every trigger starts at most one invocation
MaxRuns == MaxTriggers

----------------------------------------------------------------------------
(* Values *)

\* a JavaScript value that is a number, null or NaN
Num(v) == [t |-> "num", v |-> v]
Null == [t |-> "null"]
NaN == [t |-> "nan"]

\* a rejected promise
FAIL == [ok |-> FALSE]

\* a null Date
NoDate == -1

Min(a, b) == IF a < b THEN a ELSE b
Max(a, b) == IF a > b THEN a ELSE b

\* Array.prototype.slice(from, to) on a 0-based array held as a sequence
Slice(s, from, to) == SubSeq(s, from + 1, Min(to, Len(s)))

\* Array.prototype.slice(-n): the last n elements
SliceLast(s, n) == SubSeq(s, Max(1, Len(s) - n + 1), Len(s))

\* the keys of a collection in ascending order
RECURSIVE SortedSeq(_)
SortedSeq(S) ==
    IF S = {} THEN <<>>
    ELSE LET m == CHOOSE x \in S : \A y \in S : x <= y
         IN  <<m>> \o SortedSeq(S \ {m})

CeilDiv(n, b) == (n + b - 1) \div b

----------------------------------------------------------------------------
(* NSEService: the quote adapter.                                          *)
(*                                                                         *)
(* An upstream chart response is FAIL (network error, 404, malformed body) *)
(* or [ok, price, prev, volume, high52, low52, cap, points], points being  *)
(* the parallel arrays timestamp/open/close as a sequence of               *)
(* [ts, open, close], each a number or null.                               *)

Truthy(x) == x.t = "num" /\ x.v # 0

\* new Date(ts * 1000): null * 1000 is 0, the epoch
DateOfTimestamp(ts) == IF ts.t = "num" THEN ts.v ELSE 0

\* percentage with two decimals, as an integer number of hundredths
Percent(change, base) == (change * 10000) \div base

formatPriceHistory(points) ==
    LET kept == SelectSeq(points, LAMBDA p : Truthy(p.open) /\ Truthy(p.close))
        history == [i \in 1..Len(kept) |->
                      [date |-> DateOfTimestamp(kept[i].ts),
                       open |-> kept[i].open.v,
                       close |-> kept[i].close.v]]
    IN  SliceLast(history, PriceFetchLimit)

\* the record getStockData resolves to; FAIL when it rejects
getStockData(ticker, resp) ==
    IF ~resp.ok THEN FAIL
    ELSE [ok |-> TRUE,
          ticker |-> ticker,
          currentPrice |-> resp.price,
          previousClose |-> resp.prev,
          dayChange |-> resp.price - resp.prev,
          dayChangePercent |-> Percent(resp.price - resp.prev, resp.prev),
          volume |-> resp.volume,
          high52Week |-> resp.high52,
          low52Week |-> resp.low52,
          marketCap |-> resp.cap,
          priceHistory |-> formatPriceHistory(resp.points)]

\* (mutant) Promise.all over the single fetches without their catch: one
\* rejection rejects the whole call
getMultipleStocks_FailFast(tickers, up) ==
    LET results == [i \in 1..Len(tickers) |-> getStockData(tickers[i], up[tickers[i]])]
    IN  [calls |-> tickers,
         thrown |-> \E i \in 1..Len(tickers) : ~results[i].ok,
         data |-> SelectSeq(results, LAMBDA r : r.ok)]

\* tickers.map(t => getStockData(t).catch(() => null)), Promise.all, then
\* filter(result => result !== null).  calls: the single fetches issued.
getMultipleStocks(tickers, up) ==
    LET results == [i \in 1..Len(tickers) |-> getStockData(tickers[i], up[tickers[i]])]
    IN  [calls |-> tickers,
         thrown |-> FALSE,
         data |-> SelectSeq(results, LAMBDA r : r.ok)]

----------------------------------------------------------------------------
(* AMFIService: the NAV adapter.                                           *)
(*                                                                         *)
(* An upstream response is FAIL or [ok, data], data the [date, nav]        *)
(* entries as mfapi.in lists them.  A raw date is [fmt |-> "null"]         *)
(* (missing), [fmt |-> "garbage"] (a string no parser accepts) or          *)
(* [fmt, d, m, y]: the string "d-m-y" (fmt "dmy") or "y-m-d" (fmt "iso").  *)
(* A raw nav is Num(n) (a numeric string) or NaN (any other string).       *)

\* order-preserving day number of a calendar date
DayNumber(y, m, d) == (y - 1900) * 372 + (m - 1) * 31 + (d - 1)

IsDateString(raw) == raw.fmt \in {"dmy", "iso"}

\* (mutant) the first part read as the month and the second as the day
convertDDMMYYYYtoISO_MonthFirst(raw) ==
    IF ~IsDateString(raw) THEN NoDate
    ELSE LET dayNum == raw.m
             monthNum == IF raw.fmt = "dmy" THEN raw.d ELSE raw.y
             yearNum == IF raw.fmt = "dmy" THEN raw.y ELSE raw.d
         IN  IF /\ dayNum >= 1 /\ dayNum <= 31
                /\ monthNum >= 1 /\ monthNum <= 12
                /\ yearNum >= 1900 /\ yearNum <= 2100
             THEN DayNumber(yearNum, monthNum, dayNum)
             ELSE NoDate

\* NoDate (null) when the string is not DD-MM-YYYY with day, month and year
\* in range; split('-') puts the first part in day and the last in year
convertDDMMYYYYtoISO(raw) ==
    IF ~IsDateString(raw) THEN NoDate
    ELSE LET dayNum == IF raw.fmt = "dmy" THEN raw.d ELSE raw.y
             monthNum == raw.m
             yearNum == IF raw.fmt = "dmy" THEN raw.y ELSE raw.d
         IN  IF /\ dayNum >= 1 /\ dayNum <= 31
                /\ monthNum >= 1 /\ monthNum <= 12
                /\ yearNum >= 1900 /\ yearNum <= 2100
             THEN DayNumber(yearNum, monthNum, dayNum)
             ELSE NoDate

\* (mutant) no date for a missing date and for a string that cannot be
\* parsed
parseValidDate_NoFallback(raw, today) ==
    IF ~IsDateString(raw) THEN NoDate
    ELSE IF raw.d >= 1 /\ raw.d <= 31 /\ raw.m >= 1 /\ raw.m <= 12
         THEN DayNumber(raw.y, raw.m, raw.d)
         ELSE NoDate

\* never fails: the current date stands in for a missing date and for a
\* string that new Date() cannot parse
parseValidDate(raw, today) ==
    IF ~IsDateString(raw) THEN today
    ELSE IF raw.d >= 1 /\ raw.d <= 31 /\ raw.m >= 1 /\ raw.m <= 12
         THEN DayNumber(raw.y, raw.m, raw.d)
         ELSE today

\* parseFloat(item.nav) || 0
NavOrZero(raw) == IF raw.t = "num" THEN raw.v ELSE 0

formatNavHistory(navData, today) ==
    LET head == Slice(navData, 0, NavFetchLimit)
        mapped == [i \in 1..Len(head) |->
                     LET converted == convertDDMMYYYYtoISO(head[i].date)
                     IN  [date |-> IF converted = NoDate
                                   THEN parseValidDate(head[i].date, today)
                                   ELSE converted,
                          nav |-> NavOrZero(head[i].nav)]]
    IN  SelectSeq(mapped, LAMBDA item : item.date # NoDate /\ item.nav > 0)

Minus(a, b) == IF a.t = "num" /\ b.t = "num" THEN Num(a.v - b.v) ELSE NaN

\* the record getMutualFundData resolves to; FAIL when it rejects
getMutualFundData(schemeCode, resp, today) ==
    IF ~resp.ok THEN FAIL
    ELSE IF resp.data = <<>> THEN FAIL
    ELSE LET navData == resp.data
             currentNav == navData[1].nav
             previousNav == IF Len(navData) > 1 THEN navData[2].nav ELSE currentNav
             navChange == Minus(currentNav, previousNav)
         IN  [ok |-> TRUE,
              schemeCode |-> schemeCode,
              nav |-> currentNav,
              previousNav |-> previousNav,
              navChange |-> navChange,
              navChangePercent |->
                  IF previousNav = Num(0) THEN Num(0)
                  ELSE IF navChange.t = "num"
                       THEN Num(Percent(navChange.v, previousNav.v))
                       ELSE NaN,
              navDate |-> parseValidDate(navData[1].date, today),
              navHistory |-> formatNavHistory(navData, today)]

getMultipleMutualFunds(schemeCodes, up, today) ==
    LET results == [i \in 1..Len(schemeCodes) |->
                      getMutualFundData(schemeCodes[i], up[schemeCodes[i]], today)]
    IN  [calls |-> schemeCodes,
         thrown |-> FALSE,
         data |-> SelectSeq(results, LAMBDA r : r.ok)]

----------------------------------------------------------------------------
(* The record store (MongoDB through Mongoose)                             *)

\* the collection with document doc stored under key k
Stored(coll, k, doc) ==
    [x \in DOMAIN coll \cup {k} |-> IF x = k THEN doc ELSE coll[x]]

\* (mutant) $push without $slice
PushSlice_NoSlice(history, items, cap) == history \o items

\* $push: { field: { $each: items, $slice: -cap } }
PushSlice(history, items, cap) == SliceLast(history \o items, cap)

\* Stock.find({ isActive: true }).select('ticker'), in key order
ActiveTickers == SortedSeq({t \in DOMAIN stocks : stocks[t].isActive})

\* MutualFund.find({ isActive: true }).select('schemeCode'), in key order
ActiveSchemeCodes == SortedSeq({c \in DOMAIN funds : funds[c].isActive})

\* Mongoose casts every number of an update and rejects NaN
Castable(fundData) ==
    /\ fundData.nav.t = "num"
    /\ fundData.previousNav.t = "num"

----------------------------------------------------------------------------
(* DataSyncService                                                         *)

\* (mutant) every document of the collection is stamped as updated
updateStockInDatabase_TouchAll(stockData) ==
    IF dbUp /\ stockData.ticker \in DOMAIN stocks
    THEN [t \in DOMAIN stocks |-> [stocks[t] EXCEPT !.lastUpdated = now]]
    ELSE stocks

\* the collection after updateStockInDatabase(stockData); a rejected
\* database call is caught and logged
updateStockInDatabase(stockData) ==
    IF dbUp /\ stockData.ticker \in DOMAIN stocks
    THEN [stocks EXCEPT ![stockData.ticker] =
            [@ EXCEPT !.currentPrice = stockData.currentPrice,
                      !.previousClose = stockData.previousClose,
                      !.dayChange = stockData.dayChange,
                      !.dayChangePercent = stockData.dayChangePercent,
                      !.volume = stockData.volume,
                      !.high52Week = stockData.high52Week,
                      !.low52Week = stockData.low52Week,
                      !.marketCap = stockData.marketCap,
                      !.priceHistory =
                          PushSlice(@, stockData.priceHistory, PriceHistoryCap),
                      !.lastUpdated = now]]
    ELSE stocks

\* the collection after updateMutualFundInDatabase(fundData)
updateMutualFundInDatabase(fundData) ==
    IF dbUp /\ fundData.schemeCode \in DOMAIN funds /\ Castable(fundData)
    THEN [funds EXCEPT ![fundData.schemeCode] =
            [@ EXCEPT !.nav = fundData.nav.v,
                      !.previousNav = fundData.previousNav.v,
                      !.navDate = fundData.navDate,
                      !.navHistory =
                          PushSlice(@, fundData.navHistory, NavHistoryCap),
                      !.lastUpdated = now]]
    ELSE funds

\* an invocation of syncStockData ("stock") or syncMutualFundData ("fund"):
\* pc is the await it is suspended at, keys the key list, i the loop index,
\* data the fetched records not merged yet, log what it has called so far
NewRun(kind) ==
    [kind |-> kind, pc |-> "find", keys |-> <<>>, i |-> 0, data |-> <<>>,
     log |-> <<>>, result |-> "running"]

\* a slot no invocation has used
NoRun == [NewRun("none") EXCEPT !.pc = "done", !.result = "none"]

\* the lowest slot no invocation has used
FreeSlots == {s \in DOMAIN runs : runs[s].kind = "none"}
FreeSlot == CHOOSE s \in FreeSlots : \A o \in FreeSlots : s <= o

InFlight(s) == runs[s].pc # "done"

Finished(run, result) ==
    [run EXCEPT !.pc = "done", !.data = <<>>, !.result = result]

BatchSizeOf(kind) == IF kind = "stock" THEN StockBatchSize ELSE FundBatchSize

\* (mutant) the guard test left out
GuardFree_Always == TRUE

\* the guard of syncStockData: a run starts only when none holds the flag
GuardFree == ~isRunning

\* syncStockData() up to its first await (Stock.find)
syncStockData ==
    /\ FreeSlots # {}
    /\ IF GuardFree
       THEN /\ isRunning' = TRUE
            /\ runs' = [runs EXCEPT ![FreeSlot] = NewRun("stock")]
            /\ UNCHANGED skipped
       ELSE /\ skipped' = skipped + 1
            /\ UNCHANGED <<isRunning, runs>>

\* whether a mutual-fund run may start: syncMutualFundData tests nothing
FundGuardFree == TRUE

\* syncMutualFundData() up to its first await (MutualFund.find)
syncMutualFundData ==
    /\ FreeSlots # {}
    /\ IF FundGuardFree
       THEN /\ runs' = [runs EXCEPT ![FreeSlot] = NewRun("fund")]
            /\ UNCHANGED skipped
       ELSE /\ skipped' = skipped + 1
            /\ UNCHANGED runs
    /\ UNCHANGED isRunning

MarketOpen == 9 * 60 + 15

\* (mutant) the window closes with the last hour of the cron expression
MarketClose_EndOfHour == 15 * 60 + 59

MarketClose == 15 * 60 + 30

\* days of the week (0 is Sunday) and minutes of the day the clock may show
\* when the scheduler looks at it (a sample)
CronDays == {0, 1, 5, 6}
CronMinutes == {8 * 60 + 55, 9 * 60, 9 * 60 + 10, 9 * 60 + 15, 12 * 60,
                15 * 60 + 30, 15 * 60 + 35, 15 * 60 + 55, 16 * 60}

\* whether the expression '*/5 9-15 * * 1-5' matches the day and minute
CronMatches(day, minute) ==
    /\ minute % 5 = 0
    /\ minute \div 60 \in 9..15
    /\ day \in 1..5

\* the stock cron callback, fired on this day at this minute of the day
\* (the process clock is taken to show the scheduler's time zone)
CronStockSyncAt(day, currentTime) ==
    /\ CronMatches(day, currentTime)
    /\ triggers < MaxTriggers
    /\ triggers' = triggers + 1
    /\ IF currentTime >= MarketOpen /\ currentTime <= MarketClose
       THEN syncStockData
       ELSE UNCHANGED <<isRunning, runs, skipped>>
    /\ UNCHANGED <<lastStockSync, lastMutualFundSync, stocks, funds,
                   upStock, upFund, dbUp, now, wsVars, watchlistVars>>

CronStockSync ==
    \E day \in CronDays : \E currentTime \in CronMinutes :
        CronStockSyncAt(day, currentTime)

forceSyncStocks ==
    /\ triggers < MaxTriggers
    /\ triggers' = triggers + 1
    /\ syncStockData
    /\ UNCHANGED <<lastStockSync, lastMutualFundSync, stocks, funds,
                   upStock, upFund, dbUp, now, wsVars, watchlistVars>>

\* the mutual-fund cron callback
CronMutualFundSync ==
    /\ triggers < MaxTriggers
    /\ triggers' = triggers + 1
    /\ syncMutualFundData
    /\ UNCHANGED <<lastStockSync, lastMutualFundSync, stocks, funds,
                   upStock, upFund, dbUp, now, wsVars, watchlistVars>>

forceSyncMutualFunds ==
    /\ triggers < MaxTriggers
    /\ triggers' = triggers + 1
    /\ syncMutualFundData
    /\ UNCHANGED <<lastStockSync, lastMutualFundSync, stocks, funds,
                   upStock, upFund, dbUp, now, wsVars, watchlistVars>>

\* (mutant) the flag cleared at the end of the try block, not in a finally
GuardAfter_NoFinally(kind, result) ==
    IF kind = "stock" /\ result = "completed" THEN FALSE ELSE isRunning

\* the guard once a run of this kind ends: the finally block of
\* syncStockData clears it, syncMutualFundData never writes it
GuardAfter(kind, result) == IF kind = "stock" THEN FALSE ELSE isRunning

\* (mutant) a trigger that was skipped is run when the guard is released
EndRun_Deferred(s, run, result) ==
    /\ runs' = IF run.kind = "stock" /\ skipped > 0 /\ FreeSlots # {}
               THEN [runs EXCEPT ![s] = Finished(run, result),
                                 ![FreeSlot] = NewRun("stock")]
               ELSE [runs EXCEPT ![s] = Finished(run, result)]
    /\ isRunning' = IF run.kind = "stock" /\ skipped > 0 /\ FreeSlots # {}
                    THEN TRUE
                    ELSE GuardAfter(run.kind, result)
    /\ lastStockSync' =
          IF run.kind = "stock" /\ result = "completed" THEN now ELSE lastStockSync
    /\ lastMutualFundSync' =
          IF run.kind = "fund" /\ result = "completed" THEN now
          ELSE lastMutualFundSync

\* the run in slot s ends: return, or catch, then finally
EndRun(s, run, result) ==
    /\ runs' = [runs EXCEPT ![s] = Finished(run, result)]
    /\ isRunning' = GuardAfter(run.kind, result)
    /\ lastStockSync' =
          IF run.kind = "stock" /\ result = "completed" THEN now ELSE lastStockSync
    /\ lastMutualFundSync' =
          IF run.kind = "fund" /\ result = "completed" THEN now
          ELSE lastMutualFundSync

\* the for statement's i += batchSize and its test
NextBatch(s, run) ==
    LET next == run.i + BatchSizeOf(run.kind)
    IN  IF next < Len(run.keys)
        THEN /\ runs' = [runs EXCEPT ![s] = [run EXCEPT !.pc = "fetch", !.i = next]]
             /\ UNCHANGED <<isRunning, lastStockSync, lastMutualFundSync>>
        ELSE EndRun(s, run, "completed")

\* the batch is merged: await this.sleep(ms) follows every batch
AfterMerge(run) ==
    [run EXCEPT !.pc = "sleep", !.data = <<>>,
                !.log = Append(@, [e |-> "sleep", keys |-> <<>>])]

\* await Stock.find / MutualFund.find settles
RunFind(s) ==
    /\ InFlight(s) /\ runs[s].pc = "find"
    /\ LET run == runs[s]
           keys == IF run.kind = "stock" THEN ActiveTickers ELSE ActiveSchemeCodes
       IN  IF ~dbUp THEN EndRun(s, run, "error")
           ELSE IF Len(keys) = 0 THEN EndRun(s, run, "empty")
           ELSE /\ runs' = [runs EXCEPT ![s] = [run EXCEPT !.pc = "fetch", !.keys = keys]]
                /\ UNCHANGED <<isRunning, lastStockSync, lastMutualFundSync>>
    /\ UNCHANGED <<stocks, funds, upStock, upFund, dbUp, now, wsVars, watchlistVars, triggers, skipped>>

\* (mutant) the slice one key short
BatchOf_Short(run) == Slice(run.keys, run.i, run.i + BatchSizeOf(run.kind) - 1)

\* the batch the loop is at: keys.slice(i, i + batchSize)
BatchOf(run) == Slice(run.keys, run.i, run.i + BatchSizeOf(run.kind))

KeyOf(kind, d) == IF kind = "stock" THEN d.ticker ELSE d.schemeCode

\* await getMultipleStocks(batch) / getMultipleMutualFunds(batch) settles;
\* a rejection is caught by the batch's catch and the loop goes on
RunFetch(s) ==
    /\ InFlight(s) /\ runs[s].pc = "fetch"
    /\ LET run == runs[s]
           batch == BatchOf(run)
           got == IF run.kind = "stock" THEN getMultipleStocks(batch, upStock)
                  ELSE getMultipleMutualFunds(batch, upFund, now)
           called == [run EXCEPT !.log = Append(@, [e |-> "fetch", keys |-> batch])]
           fetched == [called EXCEPT
                         !.log = Append(@, [e |-> "fetched", calls |-> got.calls,
                                            keys |-> [j \in 1..Len(got.data) |->
                                                        KeyOf(run.kind, got.data[j])]]),
                         !.data = got.data]
       IN  IF got.thrown
           THEN NextBatch(s, [called EXCEPT !.log = Append(@, [e |-> "throw", keys |-> <<>>])])
           ELSE /\ runs' = [runs EXCEPT ![s] =
                              IF got.data = <<>> THEN AfterMerge(fetched)
                              ELSE [fetched EXCEPT !.pc = "update"]]
                /\ UNCHANGED <<isRunning, lastStockSync, lastMutualFundSync>>
    /\ UNCHANGED <<stocks, funds, upStock, upFund, dbUp, now, wsVars, watchlistVars, triggers, skipped>>

\* (mutant) the exception leaves the loop and ends the run
RunBatchThrow_Abort(s) ==
    /\ InFlight(s) /\ runs[s].pc = "fetch"
    /\ LET run == runs[s]
           failed == [run EXCEPT !.log = Append(Append(@,
                                    [e |-> "fetch", keys |-> BatchOf(run)]),
                                    [e |-> "throw", keys |-> <<>>])]
       IN  EndRun(s, failed, "error")
    /\ UNCHANGED <<stocks, funds, upStock, upFund, dbUp, now, wsVars, watchlistVars, triggers, skipped>>

\* an exception other than a symbol's fetch failing is thrown inside the
\* batch's try block (getMultipleStocks rethrows it): caught, next batch
RunBatchThrow(s) ==
    /\ InFlight(s) /\ runs[s].pc = "fetch"
    /\ LET run == runs[s]
           failed == [run EXCEPT !.log = Append(Append(@,
                                    [e |-> "fetch", keys |-> BatchOf(run)]),
                                    [e |-> "throw", keys |-> <<>>])]
       IN  NextBatch(s, failed)
    /\ UNCHANGED <<stocks, funds, upStock, upFund, dbUp, now, wsVars, watchlistVars, triggers, skipped>>

\* await updateStockInDatabase(d) / updateMutualFundInDatabase(d) resolves
RunUpdate(s) ==
    /\ InFlight(s) /\ runs[s].pc = "update"
    /\ LET run == runs[s]
           d == Head(run.data)
           rest == Tail(run.data)
       IN  /\ stocks' = IF run.kind = "stock" THEN updateStockInDatabase(d) ELSE stocks
           /\ funds' = IF run.kind = "fund" THEN updateMutualFundInDatabase(d) ELSE funds
           /\ runs' = [runs EXCEPT ![s] =
                         IF rest = <<>> THEN AfterMerge(run)
                         ELSE [run EXCEPT !.data = rest]]
    /\ UNCHANGED <<isRunning, lastStockSync, lastMutualFundSync,
                   upStock, upFund, dbUp, now, wsVars, watchlistVars, triggers, skipped>>

\* await sleep(ms) resolves
RunSleep(s) ==
    /\ InFlight(s) /\ runs[s].pc = "sleep"
    /\ NextBatch(s, runs[s])
    /\ UNCHANGED <<stocks, funds, upStock, upFund, dbUp, now, wsVars, watchlistVars, triggers, skipped>>

----------------------------------------------------------------------------
(* WebSocketService: the registry of connections, the client protocol, the *)
(* heartbeat and the broadcast loop.                                       *)
(*                                                                         *)
(* Sockets are numbered 1, 2, ...; a socket no client has used yet has     *)
(* readyState "NONE".  A ticker of a client frame is Str(sym, upper): the  *)
(* string whose upper-case form is the ticker numbered sym, written in     *)
(* upper case or not; any other JSON value stands for a non-string.  The   *)
(* ws library reports a closed socket through the 'close' event: the       *)
(* socket's closing and that handler are one step here.                    *)

MaxClients == 2
MaxEvents == 4

Sockets == 1..MaxClients

Str(sym, upper) == [t |-> "str", sym |-> sym, upper |-> upper]

\* (mutant) the string as it was sent
toUpperCase_Identity(ticker) == IF ticker.upper THEN ticker.sym ELSE 0 - ticker.sym

\* ticker.toUpperCase(): an upper-case ticker is written as its number, any
\* other spelling of it as the negative of that number
toUpperCase(ticker) == ticker.sym

\* sendToClient(ws, message) on the frames sent so far: nothing is sent
\* unless the socket is open
sendToClient(box, ws, message) ==
    IF readyState[ws] = "OPEN" THEN [box EXCEPT ![ws] = Append(@, message)] ELSE box

\* the WebSocketService constructor
InitWebSocket ==
    /\ clients = << >>
    /\ readyState = [w \in Sockets |-> "NONE"]
    /\ outbox = [w \in Sockets |-> <<>>]
    /\ wsIsRunning = FALSE
    /\ updateInterval = FALSE
    /\ heartbeatIntervals = 0
    /\ signalled = FALSE
    /\ events = 0

\* one more client frame, disconnection, timer tick or signal is handled (a
\* pong answers a ping and is not counted)
Event == events < MaxEvents /\ events' = events + 1

syncVars == <<isRunning, lastStockSync, lastMutualFundSync, stocks, funds, runs,
              upStock, upFund, dbUp, now, triggers, skipped>>

\* wss.on('connection'): handleConnection(ws, req)
handleConnection(ws) ==
    /\ Event
    /\ readyState[ws] = "NONE"
    /\ \A o \in Sockets : o < ws => readyState[o] # "NONE"
    /\ readyState' = [readyState EXCEPT ![ws] = "OPEN"]
    /\ clients' = Stored(clients, ws, [subscribedTickers |-> {}, isAlive |-> TRUE])
    /\ outbox' = [outbox EXCEPT ![ws] = Append(@, [type |-> "connection"])]
    /\ UNCHANGED <<wsIsRunning, updateInterval, heartbeatIntervals, signalled, syncVars, watchlistVars>>

\* the registry without socket ws
Deleted(coll, ws) == [x \in DOMAIN coll \ {ws} |-> coll[x]]

\* (mutant) the loop stops when the last registration is deleted
OnClose_StopsWhenEmpty(ws) ==
    /\ Event
    /\ readyState[ws] = "OPEN"
    /\ readyState' = [readyState EXCEPT ![ws] = "CLOSED"]
    /\ clients' = IF ws \in DOMAIN clients THEN Deleted(clients, ws) ELSE clients
    /\ wsIsRunning' = (wsIsRunning /\ DOMAIN clients' # {})
    /\ updateInterval' = (updateInterval /\ DOMAIN clients' # {})
    /\ UNCHANGED <<outbox, heartbeatIntervals, signalled, syncVars, watchlistVars>>

\* ws.on('close'): the socket has closed and its registration is deleted
OnClose(ws) ==
    /\ Event
    /\ readyState[ws] = "OPEN"
    /\ readyState' = [readyState EXCEPT ![ws] = "CLOSED"]
    /\ clients' = IF ws \in DOMAIN clients THEN Deleted(clients, ws) ELSE clients
    /\ UNCHANGED <<outbox, wsIsRunning, updateInterval, heartbeatIntervals,
                   signalled, syncVars, watchlistVars>>

\* (mutant) the pong is ignored
OnPong_Ignored(ws) ==
    /\ Event
    /\ readyState[ws] = "OPEN"
    /\ UNCHANGED <<clients, readyState, outbox, wsIsRunning, updateInterval,
                   heartbeatIntervals, signalled, syncVars, watchlistVars>>

\* ws.on('pong')
OnPong(ws) ==
    /\ readyState[ws] = "OPEN"
    /\ clients' = IF ws \in DOMAIN clients
                  THEN [clients EXCEPT ![ws].isAlive = TRUE]
                  ELSE clients
    /\ UNCHANGED <<readyState, outbox, wsIsRunning, updateInterval,
                   heartbeatIntervals, signalled, events, syncVars, watchlistVars>>

\* tickers.forEach(ticker => { if (typeof ticker === 'string') add(upper) })
RECURSIVE Subscribed(_, _)
Subscribed(set, tickers) ==
    IF tickers = <<>> THEN set
    ELSE Subscribed(IF Head(tickers).t = "str"
                    THEN set \cup {toUpperCase(Head(tickers))}
                    ELSE set,
                    Tail(tickers))

\* tickers.forEach(ticker => delete(ticker.toUpperCase())): a ticker that
\* is no string has no toUpperCase, the TypeError ends the loop
RECURSIVE Unsubscribed(_, _)
Unsubscribed(set, tickers) ==
    IF tickers = <<>> THEN [set |-> set, thrown |-> FALSE]
    ELSE IF Head(tickers).t # "str" THEN [set |-> set, thrown |-> TRUE]
    ELSE Unsubscribed(set \ {toUpperCase(Head(tickers))}, Tail(tickers))

InvalidFormat == [type |-> "error", message |-> "Invalid message format"]
\* (mutant) an unknown type is answered like a ping
UnknownType_Pong(type) == [type |-> "pong"]

UnknownType(type) == [type |-> "error", message |-> "Unknown message type", of |-> type]

\* ws.on('message'): JSON.parse, handleClientMessage, and the catch that
\* answers 'Invalid message format'.  message is [json |-> FALSE] (no
\* JSON) or [json, type, tickers].
OnMessage(ws, message) ==
    /\ Event
    /\ readyState[ws] = "OPEN"
    /\ ws \in DOMAIN clients
    /\ LET client == clients[ws]
           left == Unsubscribed(client.subscribedTickers, message.tickers)
           start == message.json /\ message.type = "subscribe" /\ ~wsIsRunning
       IN  /\ clients' =
                 IF ~message.json THEN clients
                 ELSE IF message.type = "subscribe"
                 THEN [clients EXCEPT ![ws].subscribedTickers =
                          Subscribed(@, message.tickers)]
                 ELSE IF message.type = "unsubscribe"
                 THEN [clients EXCEPT ![ws].subscribedTickers = left.set]
                 ELSE clients
           /\ outbox' = sendToClient(outbox, ws,
                 IF ~message.json THEN InvalidFormat
                 ELSE IF message.type = "subscribe"
                 THEN [type |-> "subscription_success",
                       subscribedTickers |->
                           Subscribed(client.subscribedTickers, message.tickers)]
                 ELSE IF message.type = "unsubscribe"
                 THEN IF left.thrown THEN InvalidFormat
                      ELSE [type |-> "unsubscription_success",
                            subscribedTickers |-> left.set]
                 ELSE IF message.type = "ping" THEN [type |-> "pong"]
                 ELSE UnknownType(message.type))
           \* startRealTimeUpdates(): both timers are armed
           /\ wsIsRunning' = (wsIsRunning \/ start)
           /\ updateInterval' = (updateInterval \/ start)
           /\ heartbeatIntervals' = heartbeatIntervals + (IF start THEN 1 ELSE 0)
    /\ UNCHANGED <<readyState, signalled, syncVars, watchlistVars>>

\* stopRealTimeUpdates(): clearInterval(updateInterval); the heartbeat
\* timer has no handle and stays armed
stopRealTimeUpdates ==
    /\ updateInterval' = FALSE
    /\ wsIsRunning' = FALSE
    /\ UNCHANGED <<clients, readyState, outbox, heartbeatIntervals>>

\* the SIGTERM and SIGINT handlers of the server: stopRealTimeUpdates(),
\* then dataSyncService.stopCronJobs(), which DataSyncService does not
\* define (the TypeError is caught and logged), then server.close()
Shutdown ==
    /\ Event
    /\ stopRealTimeUpdates
    /\ signalled' = TRUE
    /\ UNCHANGED <<syncVars, watchlistVars>>

\* (mutant) the flag is left as it was
HeartbeatOf_KeepsFlag(client) == client

\* performHeartbeatCheck() on one connection
HeartbeatOf(client) == [client EXCEPT !.isAlive = FALSE]

\* a heartbeat timer fires: performHeartbeatCheck().  ws.terminate()
\* leaves the socket "CLOSING"; its later 'close' event finds no
\* registration to delete and changes nothing.
performHeartbeatCheck ==
    /\ Event
    /\ heartbeatIntervals > 0
    /\ LET dead == {ws \in DOMAIN clients : ~clients[ws].isAlive}
       IN  /\ readyState' = [ws \in Sockets |->
                                IF ws \in dead THEN "CLOSING" ELSE readyState[ws]]
           /\ clients' = [ws \in DOMAIN clients \ dead |-> HeartbeatOf(clients[ws])]
           /\ outbox' = [ws \in Sockets |->
                           IF ws \in DOMAIN clients \ dead
                           THEN Append(outbox[ws], [type |-> "ping"])
                           ELSE outbox[ws]]
    /\ UNCHANGED <<wsIsRunning, updateInterval, heartbeatIntervals, signalled, syncVars, watchlistVars>>

\* (mutant) the tickers of the first registered connection only
allSubscribedTickers_First ==
    IF DOMAIN clients = {} THEN {}
    ELSE clients[CHOOSE ws \in DOMAIN clients :
                    \A o \in DOMAIN clients : ws <= o].subscribedTickers

\* the tickers some connection is subscribed to
allSubscribedTickers ==
    UNION {clients[ws].subscribedTickers : ws \in DOMAIN clients}

PriceUpdate(stockData) ==
    [type |-> "price_update",
     ticker |-> stockData.ticker,
     currentPrice |-> stockData.currentPrice,
     dayChange |-> stockData.dayChange,
     dayChangePercent |-> stockData.dayChangePercent,
     volume |-> stockData.volume]

\* (mutant) the frame goes to every registered connection
Receives_All(client, stockData) == TRUE

\* whether broadcastStockUpdate sends the record's frame to this client
Receives(client, stockData) == stockData.ticker \in client.subscribedTickers

\* broadcastStockUpdate(stockData): the frames sent after it
broadcastStockUpdate(stockData) ==
    [ws \in Sockets |->
        IF ws \in DOMAIN clients /\ Receives(clients[ws], stockData)
        THEN sendToClient(outbox, ws, PriceUpdate(stockData))[ws]
        ELSE outbox[ws]]

----------------------------------------------------------------------------
(* The other writers of the store: the seeder (a script of its own), the   *)
(* penny-stock discovery and the real-time broadcast.  Each invocation is  *)
(* a run as well; one step of the seeder or of the discovery is one        *)
(* iteration of its loop (fetch, look up, write).                          *)

\* the seeder's pennyStockTickers and popularMutualFundSchemes
PennyStockTickers == <<1, 2>>
PopularMutualFundSchemes == <<1, 2>>

\* the discovery's potentialTickers
PotentialTickers == <<2, 3>>

PennyPriceLimit == 50
SeedNavLimit == 50

\* new Stock({ ...stockData, ... }): the fetched record as a document
StockDocument(stockData) ==
    [ticker |-> stockData.ticker,
     currentPrice |-> stockData.currentPrice,
     previousClose |-> stockData.previousClose,
     dayChange |-> stockData.dayChange,
     dayChangePercent |-> stockData.dayChangePercent,
     volume |-> stockData.volume,
     high52Week |-> stockData.high52Week,
     low52Week |-> stockData.low52Week,
     marketCap |-> stockData.marketCap,
     priceHistory |-> stockData.priceHistory,
     isActive |-> TRUE,
     lastUpdated |-> now]

\* new MutualFund({ ...fundData, navHistory: history, isActive: true })
FundDocument(fundData, history) ==
    [schemeCode |-> fundData.schemeCode,
     nav |-> fundData.nav.v,
     previousNav |-> fundData.previousNav.v,
     navChange |-> fundData.navChange.v,
     navChangePercent |-> fundData.navChangePercent.v,
     navDate |-> fundData.navDate,
     navHistory |-> history,
     isActive |-> TRUE,
     lastUpdated |-> now]

\* the seeder's filter of the fetched NAV history
validNavHistory(fundData) ==
    SelectSeq(fundData.navHistory, LAMBDA item : item.date # NoDate /\ item.nav > 0)

\* one iteration of seedStocks for ticker: an existing document takes every
\* fetched field, history included; a rejection is caught and logged
seedStock(ticker) ==
    LET stockData == getStockData(ticker, upStock[ticker])
    IN  IF ~stockData.ok \/ ~dbUp THEN stocks
        ELSE IF ticker \in DOMAIN stocks
        THEN Stored(stocks, ticker,
                    [StockDocument(stockData) EXCEPT
                        !.isActive = stocks[ticker].isActive])
        ELSE Stored(stocks, ticker, StockDocument(stockData))

\* one iteration of seedMutualFunds for schemeCode
seedMutualFund(schemeCode) ==
    LET fundData == getMutualFundData(schemeCode, upFund[schemeCode], now)
    IN  IF ~fundData.ok \/ ~dbUp THEN funds
        ELSE IF ~Castable(fundData) THEN funds
        ELSE LET recent == Slice(validNavHistory(fundData), 0, SeedNavLimit)
             IN  IF schemeCode \in DOMAIN funds
                 THEN Stored(funds, schemeCode,
                             [FundDocument(fundData,
                                  PushSlice(funds[schemeCode].navHistory, recent,
                                            NavHistoryCap))
                              EXCEPT !.isActive = funds[schemeCode].isActive])
                 ELSE Stored(funds, schemeCode, FundDocument(fundData, recent))

\* addPennyStockToDatabase(stockData): inserts the ticker if it is new
addPennyStockToDatabase(stockData) ==
    IF dbUp /\ stockData.ticker \notin DOMAIN stocks
    THEN Stored(stocks, stockData.ticker, StockDocument(stockData))
    ELSE stocks

\* (mutant) upsert: true
updateQuoteInDatabase_Upsert(stockData) ==
    IF dbUp /\ stockData.ticker \notin DOMAIN stocks
    THEN Stored(stocks, stockData.ticker, StockDocument(stockData))
    ELSE stocks

\* WebSocketService.updateStockInDatabase(stockData): findOneAndUpdate of
\* the quote fields, upsert: false
updateQuoteInDatabase(stockData) ==
    IF dbUp /\ stockData.ticker \in DOMAIN stocks
    THEN [stocks EXCEPT ![stockData.ticker] =
            [@ EXCEPT !.currentPrice = stockData.currentPrice,
                      !.previousClose = stockData.previousClose,
                      !.dayChange = stockData.dayChange,
                      !.dayChangePercent = stockData.dayChangePercent,
                      !.volume = stockData.volume,
                      !.lastUpdated = now]]
    ELSE stocks

StartRun(run) ==
    /\ triggers < MaxTriggers
    /\ triggers' = triggers + 1
    /\ FreeSlots # {}
    /\ runs' = [runs EXCEPT ![FreeSlot] = run]
    /\ UNCHANGED <<isRunning, lastStockSync, lastMutualFundSync, stocks, funds,
                   upStock, upFund, dbUp, now, wsVars, watchlistVars, skipped>>

\* the seeder script is started
seedDatabase ==
    StartRun([NewRun("seed") EXCEPT !.pc = "seedStocks", !.keys = PennyStockTickers])

\* the discovery cron callback
discoverPennyStocks ==
    StartRun([NewRun("discover") EXCEPT !.pc = "discover", !.keys = PotentialTickers])

\* the broadcast timer fires: fetchAndBroadcastUpdates() up to its await of
\* getMultipleStocks; nothing is fetched when no ticker is subscribed
fetchAndBroadcastUpdates ==
    /\ updateInterval
    /\ IF allSubscribedTickers = {}
       THEN /\ triggers < MaxTriggers
            /\ triggers' = triggers + 1
            /\ UNCHANGED <<isRunning, lastStockSync, lastMutualFundSync, stocks,
                           funds, runs, upStock, upFund, dbUp, now, skipped, wsVars, watchlistVars>>
       ELSE StartRun([NewRun("broadcast") EXCEPT
                         !.pc = "quotes", !.keys = SortedSeq(allSubscribedTickers)])

\* the loop of seedStocks handles its next ticker; seedMutualFunds follows
SeedStocksStep(s) ==
    /\ InFlight(s) /\ runs[s].pc = "seedStocks"
    /\ LET run == runs[s]
           next == run.i + 1
       IN  /\ stocks' = seedStock(run.keys[next])
           /\ runs' = [runs EXCEPT ![s] =
                         IF next < Len(run.keys) THEN [run EXCEPT !.i = next]
                         ELSE [run EXCEPT !.pc = "seedFunds", !.i = 0,
                                          !.keys = PopularMutualFundSchemes]]
    /\ UNCHANGED <<isRunning, lastStockSync, lastMutualFundSync, funds,
                   upStock, upFund, dbUp, now, wsVars, watchlistVars, triggers, skipped>>

\* the loop of seedMutualFunds handles its next scheme; the script exits
\* after the last one
SeedFundsStep(s) ==
    /\ InFlight(s) /\ runs[s].pc = "seedFunds"
    /\ LET run == runs[s]
           next == run.i + 1
       IN  /\ funds' = seedMutualFund(run.keys[next])
           /\ runs' = [runs EXCEPT ![s] =
                         IF next < Len(run.keys) THEN [run EXCEPT !.i = next]
                         ELSE Finished(run, "completed")]
    /\ UNCHANGED <<isRunning, lastStockSync, lastMutualFundSync, stocks,
                   upStock, upFund, dbUp, now, wsVars, watchlistVars, triggers, skipped>>

\* the loop of discoverPennyStocks handles its next candidate
DiscoverStep(s) ==
    /\ InFlight(s) /\ runs[s].pc = "discover"
    /\ LET run == runs[s]
           next == run.i + 1
           ticker == run.keys[next]
           stockData == getStockData(ticker, upStock[ticker])
       IN  /\ stocks' = IF stockData.ok /\ stockData.currentPrice <= PennyPriceLimit
                        THEN addPennyStockToDatabase(stockData)
                        ELSE stocks
           /\ runs' = [runs EXCEPT ![s] =
                         IF next < Len(run.keys) THEN [run EXCEPT !.i = next]
                         ELSE Finished(run, "completed")]
    /\ UNCHANGED <<isRunning, lastStockSync, lastMutualFundSync, funds,
                   upStock, upFund, dbUp, now, wsVars, watchlistVars, triggers, skipped>>

\* the broadcast's await getMultipleStocks(tickers) settles; the first
\* record is broadcast and its database update awaited
BroadcastFetch(s) ==
    /\ InFlight(s) /\ runs[s].pc = "quotes"
    /\ LET run == runs[s]
           got == getMultipleStocks(run.keys, upStock)
       IN  IF got.thrown \/ got.data = <<>>
           THEN /\ runs' = [runs EXCEPT ![s] = Finished(run, "completed")]
                /\ UNCHANGED outbox
           ELSE /\ runs' = [runs EXCEPT ![s] = [run EXCEPT !.pc = "quote",
                                                           !.data = got.data]]
                /\ outbox' = broadcastStockUpdate(Head(got.data))
    /\ UNCHANGED <<isRunning, lastStockSync, lastMutualFundSync, stocks, funds,
                   upStock, upFund, dbUp, now, triggers, skipped, clients,
                   readyState, wsIsRunning, updateInterval, heartbeatIntervals,
                   signalled, events, watchlistVars>>

\* the broadcast's await updateStockInDatabase(stockData) resolves; the
\* next record is broadcast and its update awaited
BroadcastUpdate(s) ==
    /\ InFlight(s) /\ runs[s].pc = "quote"
    /\ LET run == runs[s]
           rest == Tail(run.data)
       IN  /\ stocks' = updateQuoteInDatabase(Head(run.data))
           /\ IF rest = <<>>
              THEN /\ runs' = [runs EXCEPT ![s] = Finished(run, "completed")]
                   /\ UNCHANGED outbox
              ELSE /\ runs' = [runs EXCEPT ![s] = [run EXCEPT !.data = rest]]
                   /\ outbox' = broadcastStockUpdate(Head(rest))
    /\ UNCHANGED <<isRunning, lastStockSync, lastMutualFundSync, funds,
                   upStock, upFund, dbUp, now, triggers, skipped, clients,
                   readyState, wsIsRunning, updateInterval, heartbeatIntervals,
                   signalled, events, watchlistVars>>

----------------------------------------------------------------------------
(* The environment: the database and the upstream providers                *)

\* the database goes down or comes back
DbToggle ==
    /\ dbUp' = ~dbUp
    /\ UNCHANGED <<isRunning, lastStockSync, lastMutualFundSync, stocks, funds,
                   runs, upStock, upFund, now, wsVars, watchlistVars, triggers, skipped>>

Today == DayNumber(2024, 3, 20)

Pt(ts, open, close) == [ts |-> ts, open |-> open, close |-> close]

\* n daily points from day `first` on, oldest first as Yahoo lists them
DailyPoints(first, n) ==
    [i \in 1..n |-> Pt(Num(first + i - 1), Num(10), Num(11))]

Quote(price, prev, points) ==
    [ok |-> TRUE, price |-> price, prev |-> prev, volume |-> 1000,
     high52 |-> 60, low52 |-> 5, cap |-> 5000, points |-> points]

Dmy(d, m, y) == [fmt |-> "dmy", d |-> d, m |-> m, y |-> y]

NavEntry(date, nav) == [date |-> date, nav |-> nav]

\* the DD-MM-YYYY string of a day number (every month of the model's
\* calendar has 31 days)
DmyOfDay(n) == Dmy((n % 31) + 1, ((n \div 31) % 12) + 1, (n \div 372) + 1900)

\* n daily NAV entries ending at day `last`, newest first as mfapi.in
\* lists them
DailyNavs(last, n) ==
    [i \in 1..n |-> NavEntry(DmyOfDay(last - i + 1), Num(20))]

\* entries of a NAV list that are not valid points: a date no parser
\* accepts, a missing date, a nav that is not a number, zero, negative
BadNavs ==
    << NavEntry([fmt |-> "garbage"], Num(20)),
       NavEntry([fmt |-> "null"], Num(20)),
       NavEntry(DmyOfDay(Today - 1), NaN),
       NavEntry(DmyOfDay(Today - 1), Num(0)),
       NavEntry(DmyOfDay(Today - 1), Num(-5)) >>

\* indices of a chart result that are not valid points: a null timestamp,
\* a null, zero or negative open, a null close
BadPoints ==
    << Pt(Null, Num(10), Num(11)),
       Pt(Num(Today), Null, Num(11)),
       Pt(Num(Today), Num(0), Num(11)),
       Pt(Num(Today), Num(-3), Num(11)),
       Pt(Num(Today), Num(10), Null) >>

NavResponse(entries) == [ok |-> TRUE, data |-> entries]

StockRecord(ticker, history, active) ==
    [ticker |-> ticker, currentPrice |-> 9, previousClose |-> 9, dayChange |-> 0,
     dayChangePercent |-> 0, volume |-> 0, high52Week |-> 60, low52Week |-> 5,
     marketCap |-> 5000, priceHistory |-> history, isActive |-> active,
     lastUpdated |-> Today - 1]

FundRecord(schemeCode, history, active) ==
    [schemeCode |-> schemeCode, nav |-> 19, previousNav |-> 19, navChange |-> 0,
     navChangePercent |-> 0, navDate |-> Today - 1, navHistory |-> history,
     isActive |-> active, lastUpdated |-> Today - 1]

\* no watchlist request has arrived; the user's watchlist is empty
InitWatchlist ==
    /\ watchlist = [found |-> TRUE, stocks |-> << >>, v |-> 0]
    /\ requests = << >>

InitService ==
    /\ isRunning = FALSE
    /\ lastStockSync = NoDate
    /\ lastMutualFundSync = NoDate
    /\ runs = [s \in 1..MaxRuns |-> NoRun]
    /\ triggers = 0
    /\ skipped = 0
    /\ now = Today

----------------------------------------------------------------------------
(* Spec: the scheduler's triggers and the runs they start, interleaved     *)

SchedKeys == 1

\* the provider answers for the odd keys and fails for the even ones
InitUpstream(keys) ==
    /\ upStock = [t \in keys |->
                    IF t % 2 = 0 THEN FAIL
                    ELSE Quote(12, 10, DailyPoints(Today - 2, 2))]
    /\ upFund = [c \in keys |->
                   IF c % 2 = 0 THEN FAIL ELSE NavResponse(DailyNavs(Today - 1, 2))]

Init ==
    /\ InitService
    /\ InitWatchlist
    /\ InitWebSocket
    /\ dbUp = TRUE
    /\ \E n \in 0..SchedKeys :
          /\ stocks = [t \in 1..n |-> StockRecord(t, <<>>, TRUE)]
          /\ funds = [c \in 1..(SchedKeys - n) |-> FundRecord(c, <<>>, TRUE)]
    /\ InitUpstream(1..SchedKeys)

Next ==
    \/ CronStockSync
    \/ forceSyncStocks
    \/ CronMutualFundSync
    \/ forceSyncMutualFunds
    \/ DbToggle
    \/ \E s \in 1..MaxRuns : RunFind(s)
    \/ \E s \in 1..MaxRuns : RunFetch(s)
    \/ \E s \in 1..MaxRuns : RunBatchThrow(s)
    \/ \E s \in 1..MaxRuns : RunUpdate(s)
    \/ \E s \in 1..MaxRuns : RunSleep(s)

Spec == Init /\ [][Next]_vars

\* a suspended invocation resumes once what it awaits has settled
RunStep(s) ==
    RunFind(s) \/ RunFetch(s) \/ RunBatchThrow(s) \/ RunUpdate(s) \/ RunSleep(s)

AnyRunStep == \E s \in 1..MaxRuns : RunStep(s)

FairSpec == Spec /\ WF_vars(AnyRunStep)

----------------------------------------------------------------------------
(* BatchSpec: one forced run over a store large enough for several batches *)

BatchKeys == 25

\* every seventh record of the store is deactivated
BatchInit ==
    /\ InitService
    /\ InitWatchlist
    /\ InitWebSocket
    /\ dbUp = TRUE
    /\ \E n \in 0..BatchKeys :
          /\ stocks = [t \in 1..n |-> StockRecord(t, <<>>, t % 7 # 0)]
          /\ funds = [c \in 1..n |-> FundRecord(c, <<>>, c % 7 # 0)]
    /\ InitUpstream(1..BatchKeys)

BatchNext ==
    \/ (triggers = 0 /\ forceSyncStocks)
    \/ (triggers = 0 /\ forceSyncMutualFunds)
    \/ \E s \in 1..MaxRuns : RunFind(s)
    \/ \E s \in 1..MaxRuns : RunFetch(s)
    \/ \E s \in 1..MaxRuns : RunBatchThrow(s)
    \/ \E s \in 1..MaxRuns : RunUpdate(s)
    \/ \E s \in 1..MaxRuns : RunSleep(s)

BatchSpec == BatchInit /\ [][BatchNext]_vars

----------------------------------------------------------------------------
(* FetchSpec: one forced run, every combination of per-symbol outcomes     *)

FetchKeys == 3

FetchInit ==
    /\ InitService
    /\ InitWatchlist
    /\ InitWebSocket
    /\ dbUp = TRUE
    /\ \E n \in 1..FetchKeys :
          /\ stocks = [t \in 1..n |-> StockRecord(t, <<>>, TRUE)]
          /\ funds = [c \in 1..n |-> FundRecord(c, <<>>, TRUE)]
          /\ \E failing \in SUBSET (1..n) :
                /\ upStock = [t \in 1..n |->
                                IF t \in failing THEN FAIL
                                ELSE Quote(12, 10, DailyPoints(Today - 2, 2))]
                /\ \E empty \in SUBSET ((1..n) \ failing) :
                      upFund = [c \in 1..n |->
                                  IF c \in failing THEN FAIL
                                  ELSE IF c \in empty THEN NavResponse(<<>>)
                                  ELSE NavResponse(DailyNavs(Today - 1, 2))]

FetchNext ==
    \/ (triggers = 0 /\ forceSyncStocks)
    \/ (triggers = 0 /\ forceSyncMutualFunds)
    \/ \E s \in 1..MaxRuns : RunFind(s)
    \/ \E s \in 1..MaxRuns : RunFetch(s)
    \/ \E s \in 1..MaxRuns : RunUpdate(s)
    \/ \E s \in 1..MaxRuns : RunSleep(s)

FetchSpec == FetchInit /\ [][FetchNext]_vars

----------------------------------------------------------------------------
(* HistorySpec: every writer of the histories, over stored histories that  *)
(* are empty or at their cap and fetched lists shorter or longer than it   *)

HistExtra == 2

\* a price history at its cap, as earlier runs left it
FullPriceHistory ==
    formatPriceHistory(DailyPoints(Today - 1 - PriceHistoryCap, PriceHistoryCap))

\* a NAV history at its cap, as earlier runs left it
FullNavHistory == formatNavHistory(DailyNavs(Today - 2, NavHistoryCap), Today)

HistoryInit ==
    /\ InitService
    /\ InitWatchlist
    \* one client has connected and subscribed to tickers 1 to 3
    /\ clients = [ws \in {1} |-> [subscribedTickers |-> 1..3, isAlive |-> TRUE]]
    /\ readyState = [ws \in Sockets |-> IF ws = 1 THEN "OPEN" ELSE "NONE"]
    /\ outbox = [ws \in Sockets |->
                   IF ws = 1
                   THEN <<[type |-> "connection"],
                          [type |-> "subscription_success",
                           subscribedTickers |-> 1..3]>>
                   ELSE <<>>]
    /\ wsIsRunning = TRUE
    /\ updateInterval = TRUE
    /\ heartbeatIntervals = 1
    /\ signalled = FALSE
    /\ events = 0
    /\ dbUp = TRUE
    /\ \E full \in BOOLEAN :
          /\ stocks = [t \in {1} |->
                         StockRecord(t, IF full THEN FullPriceHistory ELSE <<>>, TRUE)]
          /\ funds = [c \in {1} |->
                        FundRecord(c, IF full THEN FullNavHistory ELSE <<>>, TRUE)]
    /\ \E long \in BOOLEAN, bad \in BOOLEAN :
          LET np == IF long THEN PriceHistoryCap + HistExtra ELSE HistExtra
              nn == IF long THEN NavHistoryCap + HistExtra ELSE HistExtra
          IN  /\ upStock = [t \in 1..3 |->
                              Quote(IF t = 1 THEN 12 ELSE PennyPriceLimit + t - 2, 10,
                                    DailyPoints(Today - np, np)
                                        \o (IF bad THEN BadPoints ELSE <<>>))]
              /\ upFund = [c \in 1..2 |->
                             NavResponse((IF bad THEN BadNavs ELSE <<>>)
                                             \o DailyNavs(Today - 1, nn))]

\* no invocation is in flight
Idle == \A s \in DOMAIN runs : ~InFlight(s)

\* The writers are taken one after another.  A run writes a document at
\* most once, with data that do not depend on the other runs, and a write
\* is one atomic update of one document, so every order of writes to a
\* document arises this way.
HistoryNext ==
    \/ (Idle /\ seedDatabase)
    \/ (Idle /\ discoverPennyStocks)
    \/ (Idle /\ fetchAndBroadcastUpdates)
    \/ (Idle /\ forceSyncStocks)
    \/ (Idle /\ forceSyncMutualFunds)
    \/ \E s \in 1..MaxRuns : SeedStocksStep(s)
    \/ \E s \in 1..MaxRuns : SeedFundsStep(s)
    \/ \E s \in 1..MaxRuns : DiscoverStep(s)
    \/ \E s \in 1..MaxRuns : BroadcastFetch(s)
    \/ \E s \in 1..MaxRuns : BroadcastUpdate(s)
    \/ \E s \in 1..MaxRuns : RunFind(s)
    \/ \E s \in 1..MaxRuns : RunFetch(s)
    \/ \E s \in 1..MaxRuns : RunUpdate(s)
    \/ \E s \in 1..MaxRuns : RunSleep(s)

HistorySpec == HistoryInit /\ [][HistoryNext]_vars

----------------------------------------------------------------------------
(* ShutdownSpec: the three cron callbacks and the runs they start, while   *)
(* the process is sent SIGTERM or SIGINT                                   *)

ShutdownInit ==
    /\ InitService
    /\ InitWatchlist
    /\ InitWebSocket
    /\ dbUp = TRUE
    /\ stocks = [t \in 1..SchedKeys |-> StockRecord(t, <<>>, TRUE)]
    /\ funds = [c \in 1..SchedKeys |-> FundRecord(c, <<>>, TRUE)]
    /\ InitUpstream(1..3)

ShutdownNext ==
    \/ CronStockSync
    \/ CronMutualFundSync
    \/ discoverPennyStocks
    \/ Shutdown
    \/ DbToggle
    \/ \E s \in 1..MaxRuns : RunFind(s)
    \/ \E s \in 1..MaxRuns : RunFetch(s)
    \/ \E s \in 1..MaxRuns : RunBatchThrow(s)
    \/ \E s \in 1..MaxRuns : RunUpdate(s)
    \/ \E s \in 1..MaxRuns : RunSleep(s)
    \/ \E s \in 1..MaxRuns : DiscoverStep(s)

ShutdownSpec == ShutdownInit /\ [][ShutdownNext]_vars

----------------------------------------------------------------------------
(* DateSpec: one forced mutual-fund run over one scheme whose NAV list is  *)
(* drawn from date strings and NAV strings of every kind                   *)

DateEntries == 2

\* date strings: DD-MM-YYYY with the day at most 12 and above, a year past
\* 2100, a day and a month out of range, YYYY-MM-DD, no date, a missing one
DateStrings ==
    { Dmy(5, 3, 2024), Dmy(3, 5, 2024), Dmy(13, 12, 2023), Dmy(31, 1, 2024),
      Dmy(5, 3, 2101), Dmy(32, 1, 2024), Dmy(5, 13, 2024),
      [fmt |-> "iso", y |-> 2024, m |-> 3, d |-> 5],
      [fmt |-> "garbage"], [fmt |-> "null"] }

RawNavs == {Num(20), Num(0), NaN}

DateInit ==
    /\ InitService
    /\ InitWatchlist
    /\ InitWebSocket
    /\ dbUp = TRUE
    /\ stocks = << >>
    /\ funds = [c \in {1} |-> FundRecord(c, <<>>, TRUE)]
    /\ upStock = << >>
    /\ \E dates \in [1..DateEntries -> DateStrings] :
       \E navs \in [1..DateEntries -> RawNavs] :
          upFund = [c \in {1} |->
                      NavResponse([i \in 1..DateEntries |->
                                     NavEntry(dates[i], navs[i])])]

DateNext ==
    \/ (triggers = 0 /\ forceSyncMutualFunds)
    \/ \E s \in 1..MaxRuns : RunFind(s)
    \/ \E s \in 1..MaxRuns : RunFetch(s)
    \/ \E s \in 1..MaxRuns : RunUpdate(s)
    \/ \E s \in 1..MaxRuns : RunSleep(s)

DateSpec == DateInit /\ [][DateNext]_vars

----------------------------------------------------------------------------
(* DiscoverySpec: one discovery run over candidates that the store holds   *)
(* or not, priced below, at and above the penny-stock limit, or failing    *)

\* what the provider answers for a candidate
CandidateQuotes ==
    {FAIL} \cup {Quote(price, 10, DailyPoints(Today - 2, 2)) :
                    price \in {PennyPriceLimit - 1, PennyPriceLimit,
                               PennyPriceLimit + 1}}

DiscoveryInit ==
    /\ InitService
    /\ InitWatchlist
    /\ InitWebSocket
    /\ dbUp = TRUE
    /\ funds = << >>
    /\ upFund = << >>
    /\ \E held \in SUBSET {2, 3} :
          stocks = [t \in {1} \cup held |-> StockRecord(t, <<>>, TRUE)]
    /\ \E quotes \in [{2, 3} -> CandidateQuotes] :
          upStock = [t \in 1..3 |->
                       IF t = 1 THEN Quote(12, 10, DailyPoints(Today - 2, 2))
                       ELSE quotes[t]]

DiscoveryNext ==
    \/ (triggers = 0 /\ discoverPennyStocks)
    \/ \E s \in 1..MaxRuns : DiscoverStep(s)

DiscoverySpec == DiscoveryInit /\ [][DiscoveryNext]_vars

----------------------------------------------------------------------------
(* WsSpec: clients connect, send frames, answer pings and leave, while the *)
(* timers and the shutdown signal fire.  The provider answers for ticker 1 *)
(* and fails for ticker 2.                                                 *)

\* the frames a client sends
ClientMessages ==
    { [json |-> FALSE],
      [json |-> TRUE, type |-> "hello", tickers |-> <<>>],
      [json |-> TRUE, type |-> "ping", tickers |-> <<>>],
      [json |-> TRUE, type |-> "subscribe", tickers |-> <<Str(1, TRUE)>>],
      [json |-> TRUE, type |-> "subscribe",
       tickers |-> <<Str(1, FALSE), Num(7), Str(2, TRUE)>>],
      [json |-> TRUE, type |-> "unsubscribe", tickers |-> <<Str(1, FALSE)>>],
      [json |-> TRUE, type |-> "unsubscribe", tickers |-> <<Num(7), Str(1, TRUE)>>] }

WsInit ==
    /\ InitService
    /\ InitWatchlist
    /\ InitWebSocket
    /\ dbUp = TRUE
    /\ stocks = [t \in 1..2 |-> StockRecord(t, <<>>, TRUE)]
    /\ funds = << >>
    /\ upStock = [t \in 1..2 |->
                    IF t = 2 THEN FAIL ELSE Quote(12, 10, DailyPoints(Today - 2, 2))]
    /\ upFund = << >>

WsNext ==
    \/ \E ws \in Sockets : handleConnection(ws)
    \/ \E ws \in Sockets : \E message \in ClientMessages : OnMessage(ws, message)
    \* a client answers a ping it has been sent
    \/ \E ws \in DOMAIN clients : ~clients[ws].isAlive /\ OnPong(ws)
    \/ \E ws \in Sockets : OnClose(ws)
    \/ performHeartbeatCheck
    \/ Shutdown
    \* the cycles are taken one after another here (PollSpec lets them
    \* overlap); the clients' events still fall between the steps of the
    \* cycle in flight
    \/ (Idle /\ fetchAndBroadcastUpdates)
    \/ \E s \in 1..MaxRuns : BroadcastFetch(s)
    \/ \E s \in 1..MaxRuns : BroadcastUpdate(s)

WsSpec == WsInit /\ [][WsNext]_vars

----------------------------------------------------------------------------
(* PollSpec: as WsSpec, with the poll timer firing whether or not the      *)
(* cycle it started before has ended                                       *)

PollNext ==
    \/ \E ws \in Sockets : handleConnection(ws)
    \/ \E ws \in Sockets : \E message \in ClientMessages : OnMessage(ws, message)
    \/ \E ws \in DOMAIN clients : ~clients[ws].isAlive /\ OnPong(ws)
    \/ \E ws \in Sockets : OnClose(ws)
    \/ performHeartbeatCheck
    \/ Shutdown
    \/ fetchAndBroadcastUpdates
    \/ \E s \in 1..MaxRuns : BroadcastFetch(s)
    \/ \E s \in 1..MaxRuns : BroadcastUpdate(s)

PollSpec == WsInit /\ [][PollNext]_vars

----------------------------------------------------------------------------
(* WatchlistSpec: add and remove requests on one watchlist, interleaved    *)

MaxRequests == 3

\* what the clients put in the request's ticker
RequestTickers == {Str(1, TRUE), Str(1, FALSE), Str(2, TRUE), Str(3, TRUE)}

NoRequest ==
    [op |-> "none", pc |-> "idle", ticker |-> 0, doc |-> << >>, v |-> 0,
     status |-> 0, message |-> ""]

\* res.status(status).json({message}) ends the request
Respond(r, status, message) ==
    requests' = [requests EXCEPT ![r].pc = "done", ![r].status = status,
                                 ![r].message = message]

\* first position of the ticker in the list, 0 for findIndex's -1
IndexOfTicker(list, ticker) ==
    IF \E i \in 1..Len(list) : list[i] = ticker
    THEN CHOOSE i \in 1..Len(list) :
            /\ list[i] = ticker
            /\ \A j \in 1..(i - 1) : list[j] # ticker
    ELSE 0

\* Array.prototype.splice(index, 1)
Splice(list, index) ==
    [i \in 1..(Len(list) - 1) |-> IF i < index THEN list[i] ELSE list[i + 1]]

\* POST /api/watchlists/:id/stocks: the handler runs up to Stock.findOne
addStockToWatchlist(r, ticker) ==
    /\ requests[r].pc = "idle"
    /\ \A q \in 1..(r - 1) : requests[q].pc # "idle"
    /\ requests' = [requests EXCEPT ![r] =
                       [NoRequest EXCEPT !.op = "add", !.pc = "findStock",
                                         !.ticker = toUpperCase(ticker)]]
    /\ UNCHANGED <<watchlist, syncVars, wsVars>>

\* Stock.findOne({ticker, isActive: true}) settles; Watchlist.findOne is called
AddStockFound(r) ==
    /\ requests[r].op = "add"
    /\ requests[r].pc = "findStock"
    /\ IF /\ requests[r].ticker \in DOMAIN stocks
          /\ stocks[requests[r].ticker].isActive
       THEN requests' = [requests EXCEPT ![r].pc = "findWatchlist"]
       ELSE Respond(r, 404, "Stock not found")
    /\ UNCHANGED <<watchlist, syncVars, wsVars>>

\* Watchlist.findOne settles: the duplicate check runs on the document that
\* was read, the ticker is pushed on it and save() is called
AddWatchlistFound(r) ==
    /\ requests[r].op = "add"
    /\ requests[r].pc = "findWatchlist"
    /\ IF ~watchlist.found
       THEN Respond(r, 404, "Watchlist not found")
       ELSE IF IndexOfTicker(watchlist.stocks, requests[r].ticker) # 0
       THEN Respond(r, 400, "Stock already in watchlist")
       ELSE requests' = [requests EXCEPT
                            ![r].pc = "save",
                            ![r].doc = Append(watchlist.stocks, requests[r].ticker),
                            ![r].v = watchlist.v]
    /\ UNCHANGED <<watchlist, syncVars, wsVars>>

\* save() after push settles: the store appends the pushed entry to the list it
\* holds now ($push), whatever version the document was read at
AddSaved(r) ==
    /\ requests[r].op = "add"
    /\ requests[r].pc = "save"
    /\ watchlist' = [watchlist EXCEPT
                        !.stocks = Append(watchlist.stocks, requests[r].ticker),
                        !.v = watchlist.v + 1]
    /\ Respond(r, 200, "Stock added to watchlist")
    /\ UNCHANGED <<syncVars, wsVars>>

\* DELETE /api/watchlists/:id/stocks/:ticker: the handler runs up to
\* Watchlist.findOne
removeStockFromWatchlist(r, ticker) ==
    /\ requests[r].pc = "idle"
    /\ \A q \in 1..(r - 1) : requests[q].pc # "idle"
    /\ requests' = [requests EXCEPT ![r] =
                       [NoRequest EXCEPT !.op = "remove", !.pc = "findWatchlist",
                                         !.ticker = toUpperCase(ticker)]]
    /\ UNCHANGED <<watchlist, syncVars, wsVars>>

\* Watchlist.findOne settles: the entry is spliced out of the document that was
\* read and save() is called
RemoveWatchlistFound(r) ==
    /\ requests[r].op = "remove"
    /\ requests[r].pc = "findWatchlist"
    /\ IF ~watchlist.found
       THEN Respond(r, 404, "Watchlist not found")
       ELSE IF IndexOfTicker(watchlist.stocks, requests[r].ticker) = 0
       THEN Respond(r, 404, "Stock not found in watchlist")
       ELSE requests' = [requests EXCEPT
                            ![r].pc = "save",
                            ![r].doc = Splice(watchlist.stocks,
                                              IndexOfTicker(watchlist.stocks,
                                                            requests[r].ticker)),
                            ![r].v = watchlist.v]
    /\ UNCHANGED <<watchlist, syncVars, wsVars>>

\* save() after splice settles: the whole list is written if the document still
\* has the version it was read at; otherwise save() rejects with a VersionError
\* and the catch block answers 500
RemoveSaved(r) ==
    /\ requests[r].op = "remove"
    /\ requests[r].pc = "save"
    /\ IF watchlist.v = requests[r].v
       THEN /\ watchlist' = [watchlist EXCEPT !.stocks = requests[r].doc,
                                              !.v = watchlist.v + 1]
            /\ Respond(r, 200, "Stock removed from watchlist")
       ELSE /\ Respond(r, 500, "Server Error")
            /\ UNCHANGED watchlist
    /\ UNCHANGED <<syncVars, wsVars>>

\* tickers 1 and 2 are active stocks, ticker 3 is not in the store; the
\* watchlist of the requests is missing, empty or holds ticker 2
WatchlistInit ==
    /\ InitService
    /\ InitWebSocket
    /\ dbUp = TRUE
    /\ stocks = [t \in 1..2 |-> StockRecord(t, << >>, TRUE)]
    /\ funds = << >>
    /\ upStock = << >>
    /\ upFund = << >>
    /\ requests = [r \in 1..MaxRequests |-> NoRequest]
    /\ watchlist \in {[found |-> FALSE, stocks |-> << >>, v |-> 0],
                      [found |-> TRUE, stocks |-> << >>, v |-> 0],
                      [found |-> TRUE, stocks |-> <<2>>, v |-> 0]}

WatchlistNext ==
    \/ \E r \in 1..MaxRequests, ticker \in RequestTickers :
          addStockToWatchlist(r, ticker)
    \/ \E r \in 1..MaxRequests : AddStockFound(r)
    \/ \E r \in 1..MaxRequests : AddWatchlistFound(r)
    \/ \E r \in 1..MaxRequests : AddSaved(r)
    \/ \E r \in 1..MaxRequests, ticker \in RequestTickers :
          removeStockFromWatchlist(r, ticker)
    \/ \E r \in 1..MaxRequests : RemoveWatchlistFound(r)
    \/ \E r \in 1..MaxRequests : RemoveSaved(r)

WatchlistSpec == WatchlistInit /\ [][WatchlistNext]_vars

----------------------------------------------------------------------------
(* Properties                                                              *)

StockRunsInFlight == {s \in DOMAIN runs : InFlight(s) /\ runs[s].kind = "stock"}
FundRunsInFlight == {s \in DOMAIN runs : InFlight(s) /\ runs[s].kind = "fund"}

\* C1: syncStockData invoked (by the cron trigger or forceSyncStocks) while
\* isRunning is true starts no run, touches nothing but the warning log and
\* leaves isRunning true; at most one stock run is in flight in every state
C1_SingleFlight ==
    /\ [](Cardinality(StockRunsInFlight) <= 1)
    /\ [][(isRunning /\ skipped' # skipped) =>
             /\ isRunning'
             /\ runs' = runs
             /\ stocks' = stocks
             /\ funds' = funds
             /\ lastStockSync' = lastStockSync]_vars
    /\ [][(isRunning /\ (CronStockSync \/ forceSyncStocks)) =>
             (runs' = runs /\ isRunning')]_vars

\* a trigger was skipped while the one stock run is in flight
C1_Witness ==
    /\ skipped > 0
    /\ isRunning
    /\ Cardinality(StockRunsInFlight) = 1

\* C2 (as claimed): a stock run and a mutual-fund run are never in flight
\* together, and two mutual-fund runs are never in flight together
C2_SharedGuard ==
    /\ ~(StockRunsInFlight # {} /\ FundRunsInFlight # {})
    /\ Cardinality(FundRunsInFlight) <= 1

\* C3: isRunning is true only while a stock run is in flight, and every
\* stock run that took the guard ends (all batches done, empty key list, or
\* a throw) with the guard released
C3_GuardReleased ==
    /\ [](isRunning <=> StockRunsInFlight # {})
    /\ isRunning ~> ~isRunning

\* stock runs have ended each way, the guard free again
C3_Witness ==
    /\ ~isRunning
    /\ \E s \in DOMAIN runs : runs[s].kind = "stock" /\ runs[s].result = "error"
    /\ \E s \in DOMAIN runs : runs[s].kind = "stock" /\ runs[s].result = "empty"

RECURSIVE Flatten(_)
Flatten(seqs) == IF seqs = <<>> THEN <<>> ELSE Head(seqs) \o Flatten(Tail(seqs))

Fetches(run) == SelectSeq(run.log, LAMBDA ev : ev.e = "fetch")
Sleeps(run) == SelectSeq(run.log, LAMBDA ev : ev.e = "sleep")
Throws(run) == SelectSeq(run.log, LAMBDA ev : ev.e = "throw")

\* a run that read its key list and went through all of it
Reconciled(s) == runs[s].pc = "done" /\ runs[s].result \in {"completed", "empty"}

ActiveKeysOf(kind) == IF kind = "stock" THEN ActiveTickers ELSE ActiveSchemeCodes

\* C4: a run over a key list of length N issues exactly ceil(N/B) fetchMany
\* calls of at most B keys each (B = 10 for stocks, 5 for funds); the calls
\* are the consecutive slices of the list of active keys, so each key is
\* requested once, in list order
C4_BatchPartition ==
    \A s \in DOMAIN runs :
        LET run == runs[s]
            B == BatchSizeOf(run.kind)
            fetched == Fetches(run)
        IN  /\ \A j \in 1..Len(fetched) :
                  /\ Len(fetched[j].keys) <= B
                  /\ fetched[j].keys = Slice(run.keys, (j - 1) * B, j * B)
            /\ (InFlight(s) /\ run.pc # "find") => run.keys = ActiveKeysOf(run.kind)
            /\ Reconciled(s) =>
                  /\ Len(fetched) = CeilDiv(Len(run.keys), B)
                  /\ Flatten([j \in 1..Len(fetched) |-> fetched[j].keys]) = run.keys
                  /\ run.keys = ActiveKeysOf(run.kind)

\* a stock run over 21 keys has completed in three batches, one of which
\* threw
C4_Witness ==
    \E s \in DOMAIN runs :
        /\ Reconciled(s)
        /\ runs[s].kind = "stock"
        /\ Len(runs[s].keys) = 2 * StockBatchSize + 1
        /\ Len(Fetches(runs[s])) = 3
        /\ Len(Fetches(runs[s])[3].keys) = 1
        /\ Throws(runs[s]) # <<>>

\* C5 (as claimed): a run of k batches sleeps exactly k - 1 times, never
\* after the last batch, and also after a batch that failed
C5_SleepBetween ==
    \A s \in DOMAIN runs :
        (runs[s].pc = "done" /\ runs[s].result = "completed") =>
            /\ Len(Sleeps(runs[s])) = Len(Fetches(runs[s])) - 1
            /\ runs[s].log[Len(runs[s].log)].e # "sleep"

\* whether the single fetch of key k resolves
Succeeds(kind, k) ==
    IF kind = "stock" THEN upStock[k].ok
    ELSE upFund[k].ok /\ upFund[k].data # <<>>

\* C10: fetchMany settles without failing whatever the per-symbol outcomes,
\* issues one single fetch per requested symbol and returns the records of
\* exactly the symbols whose fetch succeeded (none when all failed)
C10_BestEffort ==
    \A s \in DOMAIN runs :
        LET run == runs[s]
            log == run.log
        IN  \A j \in 1..Len(log) :
                log[j].e = "fetch" =>
                    /\ j < Len(log)
                    /\ log[j + 1].e = "fetched"
                    /\ log[j + 1].calls = log[j].keys
                    /\ log[j + 1].keys =
                          SelectSeq(log[j].keys, LAMBDA k : Succeeds(run.kind, k))

\* a fetch of three symbols returned one record, and a fetch whose symbols
\* all failed returned none
C10_Witness ==
    \E s \in DOMAIN runs :
        /\ Len(runs[s].log) >= 2
        /\ runs[s].log[1].e = "fetch"
        /\ runs[s].log[2].e = "fetched"
        /\ \/ Len(runs[s].log[1].keys) = 3 /\ Len(runs[s].log[2].keys) = 1
           \/ Len(runs[s].log[1].keys) = 2 /\ Len(runs[s].log[2].keys) = 0

\* C6: after any write, by the seeder, the discovery, a synchronisation run
\* or the broadcast, a price history holds at most 90 points and a NAV
\* history at most 365, whatever the length of the fetched list
C6_HistoryCapped ==
    /\ \A t \in DOMAIN stocks : Len(stocks[t].priceHistory) <= PriceHistoryCap
    /\ \A c \in DOMAIN funds : Len(funds[c].navHistory) <= NavHistoryCap

\* the seeder and a mutual-fund run have both written, the fetched lists
\* being longer than the caps, and the histories stand at their caps
C6_Witness ==
    /\ \E s \in DOMAIN runs : runs[s].kind = "seed" /\ runs[s].result = "completed"
    /\ \E s \in DOMAIN runs : runs[s].kind = "fund" /\ runs[s].result = "completed"
    /\ Len(upStock[1].points) > PriceHistoryCap
    /\ Len(upFund[1].data) > NavHistoryCap
    /\ Len(stocks[1].priceHistory) = PriceHistoryCap
    /\ Len(funds[1].navHistory) = NavHistoryCap

CountDate(history, d) ==
    Cardinality({i \in DOMAIN history : history[i].date = d})

\* the points of `all` whose date is missing from `kept` are its oldest:
\* none of them is more recent than a point of `kept`
DropsOldest(all, kept) ==
    \A i \in DOMAIN all :
        CountDate(kept, all[i].date) = 0 =>
            \A k \in DOMAIN kept : all[i].date <= kept[k].date

\* C7: when a merge exceeds the cap, the points it drops are the oldest by
\* date, whatever the order the points were inserted in
C7_KeepsMostRecent ==
    [][\A s \in DOMAIN runs :
          (runs[s].pc = "update" /\ runs'[s] # runs[s]) =>
              LET d == Head(runs[s].data)
              IN  IF runs[s].kind = "stock"
                  THEN DropsOldest(stocks[d.ticker].priceHistory \o d.priceHistory,
                                   stocks'[d.ticker].priceHistory)
                  ELSE DropsOldest(funds[d.schemeCode].navHistory \o d.navHistory,
                                   funds'[d.schemeCode].navHistory)]_vars

\* the record without its history
Scalars(stock) == [stock EXCEPT !.priceHistory = <<>>]
FundScalars(fund) == [fund EXCEPT !.navHistory = <<>>]

\* C8: a run that follows a completed run of its kind, the upstream data
\* being the same, changes no scalar field and grows no history
C8_Idempotent ==
    [][\A s \in DOMAIN runs :
          (/\ s > 1
           /\ runs[s].pc = "update"
           /\ runs[s - 1].kind = runs[s].kind
           /\ runs[s - 1].result = "completed") =>
              /\ \A t \in DOMAIN stocks :
                    /\ Scalars(stocks'[t]) = Scalars(stocks[t])
                    /\ Len(stocks'[t].priceHistory) <= Len(stocks[t].priceHistory)
              /\ \A c \in DOMAIN funds :
                    /\ FundScalars(funds'[c]) = FundScalars(funds[c])
                    /\ Len(funds'[c].navHistory) <= Len(funds[c].navHistory)]_vars

\* a fetched point with a date and positive numeric values
ValidPoint(p) ==
    /\ p.ts.t = "num"
    /\ p.open.t = "num" /\ p.open.v > 0
    /\ p.close.t = "num" /\ p.close.v > 0

\* a fetched NAV entry with a parseable date and a positive numeric nav
ValidNavEntry(item) ==
    /\ IsDateString(item.date)
    /\ item.nav.t = "num" /\ item.nav.v > 0

\* C9: the formatting removes every invalid point before the cap: a fetched
\* list of N valid and M invalid points gives a history of N points when
\* N is within the cap
C9_InvalidRemoved ==
    \A s \in DOMAIN runs :
        runs[s].pc = "update" =>
            \A j \in 1..Len(runs[s].data) :
                LET d == runs[s].data[j]
                IN  IF runs[s].kind = "stock"
                    THEN LET n == Len(SelectSeq(upStock[d.ticker].points, ValidPoint))
                         IN  n <= PriceHistoryCap => Len(d.priceHistory) = n
                    ELSE LET n == Len(SelectSeq(upFund[d.schemeCode].data, ValidNavEntry))
                         IN  n <= NavHistoryCap => Len(d.navHistory) = n

\* C11: a throw inside a batch is caught in the run: the run goes on with
\* the next batch, fetches no batch twice, and ends normally with the guard
\* released, every later batch having been fetched
C11_BatchThrowCaught ==
    \A s \in DOMAIN runs :
        LET run == runs[s]
            B == BatchSizeOf(run.kind)
            log == run.log
            fetched == Fetches(run)
        IN  (run.kind \in {"stock", "fund"} /\ Throws(run) # <<>>) =>
              /\ \A j \in 1..Len(log) :
                    log[j].e = "throw" =>
                        /\ j > 1 /\ log[j - 1].e = "fetch"
                        /\ IF j < Len(log)
                           THEN log[j + 1].e = "fetch"
                           ELSE \/ run.pc = "fetch"
                                \/ run.pc = "done" /\ run.result = "completed"
              /\ \A a \in 1..Len(fetched) : \A b \in 1..Len(fetched) :
                    a < b => fetched[a].keys # fetched[b].keys
              /\ run.pc = "fetch" => Len(fetched) * B = run.i
              /\ run.pc = "done" =>
                    /\ run.result = "completed"
                    /\ Len(fetched) = CeilDiv(Len(run.keys), B)
                    /\ run.kind = "stock" => ~isRunning

\* a stock run whose first batch threw has fetched its two other batches
\* and ended with the guard free
C11_Witness ==
    \E s \in DOMAIN runs :
        /\ runs[s].kind = "stock"
        /\ runs[s].pc = "done" /\ runs[s].result = "completed"
        /\ Len(runs[s].log) > 2 /\ runs[s].log[2].e = "throw"
        /\ Len(Fetches(runs[s])) = 3
        /\ ~isRunning

\* the frames sent on socket ws in this step
NewFrames(ws) == SubSeq(outbox'[ws], Len(outbox[ws]) + 1, Len(outbox'[ws]))

\* the tickers of the price_update frames among frames, in order
PriceUpdateTickers(frames) ==
    LET updates == SelectSeq(frames, LAMBDA f : f.type = "price_update")
    IN  [j \in 1..Len(updates) |-> updates[j].ticker]

\* the broadcast cycles that broadcast a record in this step
Broadcasting ==
    {s \in DOMAIN runs : /\ runs'[s] # runs[s]
                         /\ runs'[s].kind = "broadcast"
                         /\ runs'[s].pc = "quote"}

\* C12: each record a broadcast cycle's fetch returned is sent as one
\* price_update frame to every registered connection subscribed to its
\* ticker and to no other connection, and no price_update is sent for a
\* ticker the fetch omitted
C12_BroadcastFanOut ==
    /\ [][\A ws \in Sockets :
             PriceUpdateTickers(NewFrames(ws)) =
                 IF \E s \in Broadcasting :
                       /\ ws \in DOMAIN clients
                       /\ Head(runs'[s].data).ticker \in clients[ws].subscribedTickers
                 THEN LET s == CHOOSE r \in Broadcasting : TRUE
                      IN  <<Head(runs'[s].data).ticker>>
                 ELSE <<>>]_vars
    /\ [](\A ws \in Sockets : \A t \in DOMAIN upStock :
             LET got == SelectSeq(PriceUpdateTickers(outbox[ws]), LAMBDA k : k = t)
                 cycles == {s \in DOMAIN runs : runs[s].kind = "broadcast"}
             IN  /\ Len(got) <= Cardinality(cycles)
                 /\ ~upStock[t].ok => got = <<>>)

\* a connection subscribed to tickers 1 and 2 has received one frame, for
\* ticker 1, from a finished cycle whose fetch omitted ticker 2; another
\* registered connection has received none
C12_Witness ==
    /\ \E s \in DOMAIN runs :
          /\ runs[s].kind = "broadcast" /\ runs[s].result = "completed"
          /\ runs[s].keys = <<1, 2>>
    /\ \E ws \in DOMAIN clients :
          /\ clients[ws].subscribedTickers = {1, 2}
          /\ PriceUpdateTickers(outbox[ws]) = <<1>>
    /\ \E ws \in DOMAIN clients :
          /\ clients[ws].subscribedTickers = {}
          /\ PriceUpdateTickers(outbox[ws]) = <<>>

\* C13: a heartbeat check terminates and unregisters every connection whose
\* isAlive flag is false; a connection whose flag is true has the flag set
\* to false, is sent a ping, stays registered and keeps its subscriptions
C13_Heartbeat ==
    [][performHeartbeatCheck =>
          \A ws \in DOMAIN clients :
              IF ~clients[ws].isAlive
              THEN /\ readyState'[ws] = "CLOSING"
                   /\ ws \notin DOMAIN clients'
                   /\ NewFrames(ws) = <<>>
              ELSE /\ ws \in DOMAIN clients'
                   /\ readyState'[ws] = readyState[ws]
                   /\ ~clients'[ws].isAlive
                   /\ clients'[ws].subscribedTickers = clients[ws].subscribedTickers
                   /\ NewFrames(ws) = <<[type |-> "ping"]>>]_vars

\* a subscribed connection was pinged by one check and terminated by the next
C13_Witness ==
    \E ws \in Sockets :
        /\ readyState[ws] = "CLOSING"
        /\ ws \notin DOMAIN clients
        /\ outbox[ws] # <<>>
        /\ outbox[ws][Len(outbox[ws])] = [type |-> "ping"]

\* the frames that are no JSON or whose type is no known one
Malformed ==
    {message \in ClientMessages :
        ~message.json \/ message.type \notin {"subscribe", "unsubscribe", "ping"}}

\* C14: a frame that is no valid JSON, or whose type is none of subscribe,
\* unsubscribe and ping, is answered with one error frame to its sender
\* only; the sender stays registered and open, and its subscriptions and
\* every other connection's state are unchanged
C14_MalformedFrame ==
    [][\A ws \in Sockets : \A message \in Malformed :
          OnMessage(ws, message) =>
              /\ Len(NewFrames(ws)) = 1
              /\ NewFrames(ws)[1].type = "error"
              /\ \A o \in Sockets \ {ws} : NewFrames(o) = <<>>
              /\ ws \in DOMAIN clients'
              /\ clients' = clients
              /\ readyState' = readyState
              /\ readyState[ws] = "OPEN"]_vars

\* a subscribed connection has just been answered 'Unknown message type'
C14_Witness ==
    \E ws \in DOMAIN clients :
        /\ clients[ws].subscribedTickers = {1, 2}
        /\ readyState[ws] = "OPEN"
        /\ outbox[ws][Len(outbox[ws])] = UnknownType("hello")
        /\ Len(SelectSeq(outbox[ws], LAMBDA f : f.type = "error")) = 1

\* a subscribe frame is handled in this step
SubscribeHandled ==
    \E ws \in Sockets :
        /\ NewFrames(ws) # <<>>
        /\ NewFrames(ws)[1].type = "subscription_success"

\* a broadcast cycle starts in this step
CycleStarts ==
    \E s \in DOMAIN runs' :
        /\ runs'[s].kind = "broadcast"
        /\ s \in DOMAIN runs => runs[s].kind # "broadcast"

\* C15: the broadcast loop is stopped until the first subscribe frame,
\* running from then on whatever clients unsubscribe, leave or are removed,
\* and stopped again only by stopRealTimeUpdates, after which no fetch
\* cycle starts before the next subscribe
C15_BroadcastLoop ==
    /\ []((\A ws \in Sockets :
              \A j \in 1..Len(outbox[ws]) :
                  outbox[ws][j].type # "subscription_success")
          => ~wsIsRunning)
    /\ [](updateInterval = wsIsRunning)
    /\ [][/\ SubscribeHandled => wsIsRunning'
          /\ (~wsIsRunning /\ wsIsRunning') => SubscribeHandled
          /\ (wsIsRunning /\ ~wsIsRunning') => Shutdown
          /\ Shutdown => ~wsIsRunning'
          /\ ~wsIsRunning => ~CycleStarts /\ triggers' = triggers]_vars

\* the loop is running and its timer has fired although the only
\* subscriber has left
C15_Witness ==
    /\ wsIsRunning
    /\ DOMAIN clients = {}
    /\ triggers > 0
    /\ \E ws \in Sockets :
          /\ readyState[ws] = "CLOSED"
          /\ \E j \in 1..Len(outbox[ws]) : outbox[ws][j].type = "subscription_success"

\* a scheduled stock, mutual-fund or discovery trigger starts a run in this step
ScheduledRunStarts ==
    \E s \in DOMAIN runs :
        /\ runs[s].kind = "none"
        /\ runs'[s].kind \in {"stock", "fund", "discover"}

\* C16: once the shutdown handler has called stopCronJobs(), no scheduled
\* stock, mutual-fund or discovery trigger starts a run
C16_CronStopped == [][signalled => ~ScheduledRunStarts]_vars

\* a stock reconciliation run starts in slot s in this step
StockRunStarts(s) == runs[s].kind = "none" /\ runs'[s].kind = "stock"

\* C17: a trigger skipped because a run is in progress is not queued: a
\* stock run starts only in the step of a trigger that finds the guard
\* free, a skipped trigger leaves the runs and the guard as they are, and
\* the runs started never exceed the triggers that were not skipped
C17_NotQueued ==
    /\ [](Cardinality({s \in DOMAIN runs : runs[s].kind = "stock"})
              <= triggers - skipped)
    /\ [][/\ \A s \in DOMAIN runs :
                StockRunStarts(s) =>
                    /\ ~isRunning
                    /\ triggers' = triggers + 1
                    /\ skipped' = skipped
          /\ skipped' # skipped =>
                /\ triggers' = triggers + 1
                /\ isRunning /\ isRunning'
                /\ runs' = runs]_vars

\* a trigger was skipped, the run that held the guard has ended, and no
\* other run has started
C17_Witness ==
    /\ skipped = 1
    /\ ~isRunning
    /\ triggers = 2
    /\ \E s \in DOMAIN runs :
          /\ runs[s].kind = "stock" /\ runs[s].result = "completed"
          /\ \A o \in DOMAIN runs \ {s} : runs[o].kind = "none"

\* the time of day lies in the trading window 09:15 to 15:30 on a weekday
InTradingWindow(day, minute) ==
    /\ day \in 1..5
    /\ minute >= 9 * 60 + 15
    /\ minute <= 15 * 60 + 30

FundRunsFetched ==
    {s \in DOMAIN runs : /\ runs[s].kind = "fund"
                         /\ runs[s].pc = "update"
                         /\ runs[s].data # <<>>}

\* the entries of a NAV list whose nav parses to a positive number, in order
PositiveNavs(navData) ==
    SelectSeq(navData, LAMBDA item : item.nav.t = "num" /\ item.nav.v > 0)

\* a string DD-MM-YYYY with a day and a month of the calendar
ValidDmy(raw) ==
    /\ raw.fmt = "dmy"
    /\ raw.d \in 1..31
    /\ raw.m \in 1..12

\* C19: the adapter reads DD-MM-YYYY as day, month, year: the date of a
\* fetched record and of every history point that comes from such a string
\* has day DD, month MM and year YYYY, also when DD is at most 12
C19_DayMonthYear ==
    \A s \in FundRunsFetched :
        LET record == runs[s].data[1]
            navData == upFund[record.schemeCode].data
            kept == PositiveNavs(navData)
        IN  /\ ValidDmy(navData[1].date) =>
                  record.navDate = DayNumber(navData[1].date.y, navData[1].date.m,
                                             navData[1].date.d)
            /\ Len(record.navHistory) = Len(kept)
            /\ \A j \in 1..Len(kept) :
                  ValidDmy(kept[j].date) =>
                      record.navHistory[j].date =
                          DayNumber(kept[j].date.y, kept[j].date.m, kept[j].date.d)

\* "05-03-2024" then "03-05-2024" were fetched as 5 March and 3 May 2024
C19_Witness ==
    \E s \in FundRunsFetched :
        LET record == runs[s].data[1]
            navData == upFund[record.schemeCode].data
        IN  /\ navData[1].date = Dmy(5, 3, 2024)
            /\ navData[2].date = Dmy(3, 5, 2024)
            /\ record.navDate = DayNumber(2024, 3, 5)
            /\ Len(record.navHistory) = 2
            /\ record.navHistory[1].date = DayNumber(2024, 3, 5)
            /\ record.navHistory[2].date = DayNumber(2024, 5, 3)

\* a date string no parser accepts, or no date at all
Unparseable(raw) ==
    \/ raw.fmt \in {"garbage", "null"}
    \/ raw.fmt \in {"dmy", "iso"} /\ (raw.d \notin 1..31 \/ raw.m \notin 1..12)

ReturnedKeys(kind) ==
    UNION {{ev.keys[j] : j \in 1..Len(ev.keys)} :
              ev \in UNION {{runs[s].log[i] : i \in 1..Len(runs[s].log)} :
                               s \in {r \in DOMAIN runs : runs[r].kind = kind}}
                     \cap [e : {"fetched"}, calls : Seq(Nat), keys : Seq(Nat)]}

\* C21: a record of the store for which the batch fetch returned no data
\* (its fetch failed, or its whole batch failed) has every field, its
\* history and lastUpdated included, as it was before the run
C21_UnfetchedUntouched ==
    /\ \A t \in DOMAIN stocks :
          t \notin ReturnedKeys("stock") =>
              stocks[t] = StockRecord(t, <<>>, t % 7 # 0)
    /\ \A c \in DOMAIN funds :
          c \notin ReturnedKeys("fund") =>
              funds[c] = FundRecord(c, <<>>, c % 7 # 0)

\* a finished run merged ticker 1, left ticker 2 (its fetch failed) and
\* ticker 13 (its batch failed) as they were
C21_Witness ==
    \E s \in DOMAIN runs :
        /\ runs[s].kind = "stock" /\ runs[s].result = "completed"
        /\ Throws(runs[s]) # <<>>
        /\ {1, 2, 13} \subseteq DOMAIN stocks
        /\ stocks[1].lastUpdated = now
        /\ upStock[13].ok /\ 13 \notin ReturnedKeys("stock")
        /\ stocks[2] = StockRecord(2, <<>>, TRUE)
        /\ stocks[13] = StockRecord(13, <<>>, TRUE)

\* the poll timer's callback runs in this step
PollTick == triggers' = triggers + 1

\* the tickers of all registered connections' subscription sets
SubscriptionUnion ==
    {t \in 1..3 : \E ws \in DOMAIN clients : t \in clients[ws].subscribedTickers}

\* C22: a broadcast poll cycle calls fetchMany at most once: with no
\* subscribed ticker it fetches nothing, sends no frame and writes nothing
\* to the store; otherwise it requests exactly the union of the
\* subscription sets at the moment it starts, each ticker once
C22_PollCycle ==
    [][/\ PollTick =>
             IF SubscriptionUnion = {}
             THEN runs' = runs /\ outbox' = outbox /\ stocks' = stocks
             ELSE \E s \in DOMAIN runs :
                     /\ runs[s].kind = "none"
                     /\ runs'[s].kind = "broadcast"
                     /\ runs'[s].pc = "quotes"
                     /\ Len(runs'[s].keys) = Cardinality(SubscriptionUnion)
                     /\ {runs'[s].keys[j] : j \in 1..Len(runs'[s].keys)}
                            = SubscriptionUnion
                     /\ \A o \in DOMAIN runs \ {s} : runs'[o] = runs[o]
       /\ \A s \in DOMAIN runs :
             runs[s].kind = "broadcast" =>
                 /\ runs'[s].keys = runs[s].keys
                 /\ runs[s].pc # "quotes" => runs'[s].pc # "quotes"]_vars

\* one tick found tickers 1 and 2 subscribed and fetched them, another
\* found no subscription and started nothing
C22_Witness ==
    /\ triggers = 2
    /\ Cardinality({s \in DOMAIN runs : runs[s].kind = "broadcast"}) = 1
    /\ \E s \in DOMAIN runs :
          /\ runs[s].kind = "broadcast" /\ runs[s].keys = <<1, 2>>
          /\ runs[s].pc = "done"

\* a broadcast cycle takes a step
BroadcastSteps ==
    \E s \in DOMAIN runs : runs[s].kind = "broadcast" /\ runs'[s] # runs[s]

\* C23: the broadcast path writes only scalar fields of an existing stock
\* record: it never changes a record's priceHistory and creates no record
\* for a fetched ticker that the store does not hold
C23_BroadcastScalarsOnly ==
    [][BroadcastSteps =>
          /\ DOMAIN stocks' = DOMAIN stocks
          /\ funds' = funds
          /\ \A t \in DOMAIN stocks :
                /\ stocks'[t].priceHistory = stocks[t].priceHistory
                /\ stocks'[t].high52Week = stocks[t].high52Week
                /\ stocks'[t].low52Week = stocks[t].low52Week
                /\ stocks'[t].marketCap = stocks[t].marketCap
                /\ stocks'[t].isActive = stocks[t].isActive]_vars

\* a finished cycle fetched tickers 1, 2 and 3, wrote the price of ticker 1
\* beside its untouched history, and created no record for ticker 2
C23_Witness ==
    /\ \E s \in DOMAIN runs :
          /\ runs[s].kind = "broadcast" /\ runs[s].pc = "done"
          /\ runs[s].keys = <<1, 2, 3>>
    /\ stocks[1].currentPrice = 12
    /\ stocks[1].lastUpdated = now
    /\ stocks[1].priceHistory = FullPriceHistory
    /\ 2 \notin DOMAIN stocks

\* connection ws has been pinged and has not answered yet
AwaitingPong(ws) == ws \in DOMAIN clients /\ ~clients[ws].isAlive

\* C24: while the heartbeat timer runs, a connection that sends no pong
\* between two consecutive heartbeat checks is terminated and deregistered
\* at the second of them, and a connection that answers every ping before
\* the next check is never removed by a heartbeat check
C24_HeartbeatProtocol ==
    [][\A ws \in Sockets :
          \* only a check's ping makes a connection await a pong
          /\ (ws \in DOMAIN clients /\ ~AwaitingPong(ws) /\ AwaitingPong(ws)') =>
                (performHeartbeatCheck /\ NewFrames(ws) = <<[type |-> "ping"]>>)
          \* it awaits until its pong arrives or it leaves
          /\ (AwaitingPong(ws) /\ ws \in DOMAIN clients' /\ ~AwaitingPong(ws)') =>
                OnPong(ws)
          /\ (AwaitingPong(ws) /\ OnPong(ws)) => ~AwaitingPong(ws)'
          \* the next check removes it if it still awaits, and only then
          /\ performHeartbeatCheck =>
                /\ AwaitingPong(ws) =>
                      ws \notin DOMAIN clients' /\ readyState'[ws] = "CLOSING"
                /\ (ws \in DOMAIN clients /\ ~AwaitingPong(ws)) =>
                      ws \in DOMAIN clients']_vars

\* a connection has answered its first ping, has been pinged again by the
\* next check and is still registered
C24_Witness ==
    \E ws \in DOMAIN clients :
        /\ AwaitingPong(ws)
        /\ Len(SelectSeq(outbox[ws], LAMBDA f : f.type = "ping")) = 2

\* the discovery run in slot s probes its next candidate in this step, and
\* the store changes as for a candidate inserted exactly when `wanted`
Probes(s, wanted(_)) ==
    LET ticker == runs[s].keys[runs[s].i + 1]
        quote == upStock[ticker]
        inserted == ticker \notin DOMAIN stocks /\ ticker \in DOMAIN stocks'
    IN  /\ inserted <=> (quote.ok /\ wanted(quote.price) /\ ticker \notin DOMAIN stocks)
        /\ inserted => stocks'[ticker].currentPrice = quote.price
        /\ DOMAIN stocks' \subseteq DOMAIN stocks \cup {ticker}
        /\ \A t \in DOMAIN stocks : stocks'[t] = stocks[t]
        \* the remaining candidates follow, whatever became of this one
        /\ IF runs[s].i + 1 < Len(runs[s].keys)
           THEN runs'[s].pc = "discover" /\ runs'[s].i = runs[s].i + 1
           ELSE runs'[s].pc = "done" /\ runs'[s].result = "completed"

\* C25: discovery inserts a candidate if and only if its fetched
\* price is below the threshold 50 and the store holds no record of it; an
\* existing record is never modified and a failed fetch stops nothing
C25_InsertsBelowLimit ==
    [][\A s \in DOMAIN runs :
          DiscoverStep(s) => Probes(s, LAMBDA price : price < 50)]_vars

\* the upper-case forms of the string entries of a tickers array
UpperCased(tickers) ==
    {tickers[j].sym : j \in {i \in 1..Len(tickers) : tickers[i].t = "str"}}

\* C26: a subscription set holds only upper-case ticker strings: subscribe
\* adds the upper-cased form of each string entry and ignores the other
\* entries, unsubscribe removes the upper-cased form, so "idea" and "IDEA"
\* give the same set and an unsubscribe of either spelling removes it
C26_UpperCaseSets ==
    /\ [](\A ws \in DOMAIN clients : clients[ws].subscribedTickers \subseteq 1..2)
    /\ [][\A ws \in Sockets : \A message \in ClientMessages :
             (message.json /\ OnMessage(ws, message)) =>
                 /\ message.type = "subscribe" =>
                       clients'[ws].subscribedTickers =
                           clients[ws].subscribedTickers \cup UpperCased(message.tickers)
                 /\ (/\ message.type = "unsubscribe"
                     /\ \A j \in 1..Len(message.tickers) : message.tickers[j].t = "str") =>
                       clients'[ws].subscribedTickers =
                           clients[ws].subscribedTickers \ UpperCased(message.tickers)]_vars

\* a connection subscribed to "idea" among others, then to "IDEA", then
\* unsubscribed from "idea": ticker 1 is gone from its set
C26_Witness ==
    \E ws \in DOMAIN clients :
        /\ clients[ws].subscribedTickers = {2}
        /\ Len(outbox[ws]) = 4
        /\ outbox[ws][2] = [type |-> "subscription_success", subscribedTickers |-> {1, 2}]
        /\ outbox[ws][3] = [type |-> "subscription_success", subscribedTickers |-> {1, 2}]
        /\ outbox[ws][4] = [type |-> "unsubscription_success", subscribedTickers |-> {2}]

\* the seeder or the discovery takes a step
SeedOrDiscoverySteps ==
    \E s \in DOMAIN runs :
        /\ runs[s].kind \in {"seed", "discover"}
        /\ runs'[s] # runs[s]

\* C27: the set of record keys of the store is changed only by seeding and
\* discovery, which only add keys: no stock or mutual-fund reconciliation
\* and no broadcast cycle inserts a record, and nothing deletes one
C27_KeysOnlyAdded ==
    [][/\ DOMAIN stocks \subseteq DOMAIN stocks'
       /\ DOMAIN funds \subseteq DOMAIN funds'
       /\ (DOMAIN stocks' # DOMAIN stocks \/ DOMAIN funds' # DOMAIN funds) =>
             SeedOrDiscoverySteps]_vars

\* the discovery has added ticker 2 and a broadcast cycle that fetched
\* tickers 1, 2 and 3 has added none
C27_Witness ==
    /\ \E s \in DOMAIN runs : runs[s].kind = "discover" /\ runs[s].pc = "done"
    /\ \E s \in DOMAIN runs :
          /\ runs[s].kind = "broadcast" /\ runs[s].pc = "done"
          /\ runs[s].keys = <<1, 2, 3>>
    /\ DOMAIN stocks = {1, 2}
    /\ DOMAIN funds = {1}

\* C28: at most one price-poll timer and at most one heartbeat timer are
\* active, and neither is active while the loop is stopped: no heartbeat
\* check runs then, and a stop followed by a subscribe leaves one heartbeat
\* timer running, not two
C28_TimersBounded ==
    /\ [](/\ heartbeatIntervals <= 1
          /\ ~wsIsRunning => (~updateInterval /\ heartbeatIntervals = 0))
    /\ [][~wsIsRunning => ~performHeartbeatCheck]_vars

\* the fetch-and-broadcast cycles that have not ended
CyclesInFlight == {s \in DOMAIN runs : runs[s].kind = "broadcast" /\ InFlight(s)}

\* C29: at most one fetch-and-broadcast cycle is in flight: a poll tick
\* that fires while the previous cycle awaits its fetch or a store write
\* starts no second cycle
C29_SingleCycle == Cardinality(CyclesInFlight) <= 1

\* C30: after any interleaving of add and remove requests on a watchlist, two
\* concurrent adds of the same ticker included, a ticker appears at most once
\* in the watchlist's stocks list.
C30_TickerOnce ==
    \A i, j \in 1..Len(watchlist.stocks) :
        watchlist.stocks[i] = watchlist.stocks[j] => i = j

====
